---- MODULE Spec2Model ----
(***************************************************************************)
(* Offline/online reconciliation of "unvalidated" words.                   *)
(*                                                                         *)
(* Model of OfflineManager (offline_manager.py), of the transcription      *)
(* thread's JSON writer (transcriber.py) and of the threads of app.py      *)
(* that call them.  Python strings are sequences of one-character strings  *)
(* so that strip(), lower() and the substring test of the validation gate  *)
(* are computed, not assumed.  Language tags and statuses are atoms.       *)
(* Devanagari text is written in Latin transliteration.                    *)
(***************************************************************************)
EXTENDS Naturals, Integers, Sequences, FiniteSets, TLC

VARIABLES
    unvalidated,   \* contents of data/unvalidated.json (a list of entries)
    validated,     \* contents of data/validated.json (a list of entries)
    db,            \* rows of the translations table of transcriptions.db
    now,           \* logical clock read by datetime.now()
    pc,            \* position of every thread
    loc,           \* local variables of the call every thread is in
    heard,         \* number of utterances the recognizers have accepted
    passes,        \* number of reconciliation passes started
    tried,         \* history: keys whose latest translate_to_all call raised
    gate,          \* arguments and result of the last direct _save_to_database call
    kind,          \* what each JSON file holds: a list, another document, garbage, nothing
    faults,        \* storage failures and process stops the environment may still cause
    om,            \* the OfflineManager of this process, and what its constructor found
    svc,           \* the BackgroundSyncService object and the threads start() has spawned
    env            \* the collaborators: what the network and the translator can still do

vars == <<unvalidated, validated, db, now, pc, loc, heard, passes, tried, gate, kind, faults, om, svc,
          env>>

-----------------------------------------------------------------------------
(* Bounds *)

MaxTime == 2       \* entries save_unvalidated_word ever constructs
MaxHeard == 1      \* utterances the transcription thread ever handles
MaxPasses == 2     \* reconciliation passes ever started
MaxFaults == 2     \* storage failures and process stops ever injected
MaxRows == 2       \* pending rows the transcription thread left in the table

-----------------------------------------------------------------------------
(* Strings *)

W_agua == <<"a", "g", "u", "a">>
W_roja == <<"r", "o", "j", "a">>
W_empty == <<>>
C_chat == <<"c", "1">>
C_direct == <<"c", "2">>

T_empty == <<>>
T_blank == <<" ", " ">>
T_hello == <<"h", "e", "l", "l", "o">>
T_hola == <<"h", "o", "l", "a">>
T_namaste == <<"n", "a", "m", "a", "s", "t", "e">>
T_water == <<"w", "a", "t", "e", "r">>
T_pani == <<"p", "a", "n", "i">>
T_offline_hola == <<"[", "O", "f", "f", "l", "i", "n", "e", "]", " ", "h", "o", "l", "a">>
T_Error == <<"E", "r", "r", "o", "r">>
T_NONE == <<"N", "O", "N", "E">>
T_failed == <<"T", "r", "a", "n", "s", "l", "a", "t", "i", "o", "n", " ", "F", "a", "i", "l", "e", "d">>
T_failed_to == <<"f", "a", "i", "l", "e", "d", " ", "t", "o", " ", "t", "r", "a", "n", "s", "l", "a", "t", "e">>
T_failed_br == <<"[", "t", "r", "a", "n", "s", "l", "a", "t", "i", "o", "n", " ", "f", "a", "i", "l", "e", "d", "]">>

Whitespace == {" ", "\t", "\n"}

UpperToLower ==
    [A |-> "a", B |-> "b", C |-> "c", D |-> "d", E |-> "e", F |-> "f",
     G |-> "g", H |-> "h", I |-> "i", J |-> "j", K |-> "k", L |-> "l",
     M |-> "m", N |-> "n", O |-> "o", P |-> "p", Q |-> "q", R |-> "r",
     S |-> "s", T |-> "t", U |-> "u", V |-> "v", W |-> "w", X |-> "x",
     Y |-> "y", Z |-> "z"]

\* str.lower()
Lower(s) ==
    [i \in 1..Len(s) |-> IF s[i] \in DOMAIN UpperToLower THEN UpperToLower[s[i]] ELSE s[i]]

\* str.strip()
RECURSIVE LStrip(_)
LStrip(s) ==
    IF s # <<>> /\ Head(s) \in Whitespace THEN LStrip(Tail(s)) ELSE s

RECURSIVE RStrip(_)
RStrip(s) ==
    IF s # <<>> /\ s[Len(s)] \in Whitespace THEN RStrip(SubSeq(s, 1, Len(s) - 1)) ELSE s

Strip(s) == RStrip(LStrip(s))

\* the Python test `sub in s`
Contains(s, sub) ==
    \E i \in 1..(Len(s) + 1) :
        /\ i + Len(sub) - 1 <= Len(s)
        /\ SubSeq(s, i, i + Len(sub) - 1) = sub

Range(f) == {f[i] : i \in DOMAIN f}

\* str.startswith(prefix)
StartsWith(s, prefix) == Len(prefix) <= Len(s) /\ SubSeq(s, 1, Len(prefix)) = prefix

\* dict.get(key, default)
Get(d, key, default) == IF key \in DOMAIN d THEN d[key] ELSE default

-----------------------------------------------------------------------------
(* The validation gate *)

error_indicators ==
    { <<"[", "o", "f", "f", "l", "i", "n", "e", "]">>,
      <<"[", "t", "r", "a", "n", "s", "l", "a", "t", "i", "o", "n", " ", "f", "a", "i", "l", "e", "d", "]">>,
      <<"t", "r", "a", "n", "s", "l", "a", "t", "i", "o", "n", " ", "f", "a", "i", "l", "e", "d">>,
      <<"f", "a", "i", "l", "e", "d", " ", "t", "o", " ", "t", "r", "a", "n", "s", "l", "a", "t", "e">>,
      <<"e", "r", "r", "o", "r">>,
      <<"n", "o", "n", "e">> }

required_languages == {"en", "es", "hi"}

\* the gate with the case folding left out
HasValidTranslations_CaseSensitive(translations) ==
    /\ DOMAIN translations # {}
    /\ \A lang \in required_languages :
          LET text == Get(translations, lang, <<>>) IN
          /\ text # <<>>
          /\ Strip(text) # <<>>
          /\ ~ \E indicator \in error_indicators : Contains(text, indicator)

\* OfflineManager._has_valid_translations
HasValidTranslations(translations) ==
    /\ DOMAIN translations # {}
    /\ \A lang \in required_languages :
          LET text == Get(translations, lang, <<>>) IN
          /\ text # <<>>
          /\ Strip(text) # <<>>
          /\ ~ \E indicator \in error_indicators : Contains(Lower(text), indicator)

-----------------------------------------------------------------------------
(* Threads *)

Savers == {"req1", "req2"}      \* Flask request threads that call save_unvalidated_word
Passers == {"bg", "bg2", "sync"} \* threads that call process_unvalidated: sync loops, /api/sync
Loops == {"bg", "bg2"}          \* the threads BackgroundSyncService.start() can spawn
Transcribers == {"tr"}          \* the transcribe_loop thread of transcriber.py
Routes == {"api"}               \* the Flask request thread that serves POST /api/sync
Managers == {"uwm"}             \* the thread that calls the UnvalidatedWordManager
Chats == {"chat"}               \* the Flask request thread that serves POST /api/chat/text
Mergers == {"mrg"}              \* the thread that calls one of the merge helpers of app.py
Procs == Savers \cup Passers \cup Transcribers \cup Routes \cup Managers \cup Chats \cup Mergers

\* the calls of save_unvalidated_word the request threads make: (word, language, context)
SaveInputs ==
    { <<W_agua, "es", C_chat>>, <<W_agua, "es", C_direct>>,
      <<W_agua, "en", C_chat>>, <<W_roja, "es", C_chat>>, <<W_empty, "es", C_chat>> }

NoneStr == <<"None">>           \* Python None where a string is expected
NoneTag == "<None>"             \* Python None where a tag is expected

Key(e) == <<Get(e, "word", NoneStr), Get(e, "language", NoneTag)>>

-----------------------------------------------------------------------------
(* JSON files *)

\* what a file can hold: a JSON list, another JSON document, bytes that do not
\* parse (an empty file included), or nothing at all (the file does not exist)
FileKinds == {"list", "object", "garbage", "missing"}

\* a reader that hands back whatever the file holds
ReadJsonFile_Trusting(k, content) == content

\* OfflineManager._read_json_file: [] unless the file exists, parses and is a list
ReadJsonFile(k, content) == IF k = "list" THEN content ELSE <<>>

\* how open(filepath, 'w') and json.dump can end: done; open() refused, the file
\* is as it was; json.dump failed after open() truncated the file
WriteOutcomes(n) == IF n > 0 THEN {"ok", "refused", "torn"} ELSE {"ok"}

\* OfflineManager._write_json_file: the file afterwards and the value returned
WriteJsonFile(k, content, data, w) ==
    CASE w = "ok" -> [kind |-> "list", content |-> data, ret |-> TRUE]
      [] w = "refused" -> [kind |-> k, content |-> content, ret |-> FALSE]
      [] w = "torn" -> [kind |-> "garbage", content |-> <<>>, ret |-> FALSE]

IsPending(e) == Get(e, "status", NoneTag) = "pending"

\* a JSON value in the list that is not an object: entry.get raises AttributeError on it
NotARecord == [raw |-> "string"]

IsDict(e) == "raw" \notin DOMAIN e

\* the pending entries, newest first
GetUnvalidatedWords_NewestFirst(k, file) ==
    LET pending == SelectSeq(ReadJsonFile(k, file), IsPending) IN
    [i \in 1..Len(pending) |-> pending[Len(pending) + 1 - i]]

\* OfflineManager.get_unvalidated_words
GetUnvalidatedWords(k, file) ==
    LET data == ReadJsonFile(k, file) IN
    IF \E i \in 1..Len(data) : ~ IsDict(data[i]) THEN <<>>
    ELSE SelectSeq(data, IsPending)

\* the duplicate test keyed on the word alone
WordExists_IgnoresLanguage(data, word, language) ==
    \E i \in 1..Len(data) :
        /\ Get(data[i], "word", NoneStr) = word
        /\ Get(data[i], "status", NoneTag) = "pending"

\* the duplicate test of save_unvalidated_word
WordExists(data, word, language) ==
    \E i \in 1..Len(data) :
        /\ Get(data[i], "word", NoneStr) = word
        /\ Get(data[i], "language", NoneTag) = language
        /\ Get(data[i], "status", NoneTag) = "pending"

\* the generator of any() reaches an element that is not a record before it
\* finds a pending entry of the pair
ScanRaises(data, word, language) ==
    \E i \in 1..Len(data) :
        /\ ~ IsDict(data[i])
        /\ ~ WordExists(SubSeq(data, 1, i - 1), word, language)

\* an entry built without its status
NewEntry_WithoutStatus(word, language, context, ts, is_offline) ==
    [word |-> word, language |-> language, context |-> context,
     timestamp |-> ts, is_offline |-> is_offline]

\* the entry save_unvalidated_word builds
NewEntry(word, language, context, ts, is_offline) ==
    [word |-> word, language |-> language, context |-> context,
     timestamp |-> ts, is_offline |-> is_offline, status |-> "pending"]

\* the entry process_unvalidated appends to `processed`
ProcessedEntry(entry, translations, ts) ==
    [k \in DOMAIN entry \cup {"translations", "validated_at", "status"} |->
        CASE k = "translations" -> translations
          [] k = "validated_at" -> ts
          [] k = "status" -> "validated"
          [] OTHER -> entry[k]]

\* OfflineManager._update_validated_file: existing.extend(new_validated)
UpdateValidatedFile(existing, new_validated) == existing \o new_validated

-----------------------------------------------------------------------------
(* The translations table *)

\* SELECT id ... WHERE original_word = ? AND detected_language = ?; fetchone()
DbSelectExisting(rows, word, language) ==
    LET hits == {i \in 1..Len(rows) :
                    rows[i].original_word = word /\ rows[i].detected_language = language}
    IN IF hits = {} THEN 0 ELSE CHOOSE i \in hits : \A j \in hits : i <= j

\* how the statements of _save_to_database can end: committed; sqlite3 raised and
\* the except branch returned False with nothing committed; the same after
\* get_comprehensive_meaning raised, before the connection was opened
DbOutcomes(n) == IF n > 0 THEN {"ok", "raised", "meaning_raised"} ELSE {"ok"}

\* an upsert whose INSERT branch is missing
DbUpsert_UpdateOnly(rows, existing, word, language, translations, context, is_offline) ==
    IF existing # 0
    THEN [rows EXCEPT ![existing] =
            [@ EXCEPT !.translation_en = Get(translations, "en", NoneStr),
                      !.translation_es = Get(translations, "es", NoneStr),
                      !.translation_hi = Get(translations, "hi", NoneStr),
                      !.is_validated = 1]]
    ELSE rows

\* the UPDATE / INSERT of _save_to_database
DbUpsert(rows, existing, word, language, translations, context, is_offline) ==
    IF existing # 0
    THEN [rows EXCEPT ![existing] =
            [@ EXCEPT !.translation_en = Get(translations, "en", NoneStr),
                      !.translation_es = Get(translations, "es", NoneStr),
                      !.translation_hi = Get(translations, "hi", NoneStr),
                      !.context = context,
                      !.source = IF is_offline THEN "offline" ELSE "chat",
                      !.is_validated = 1,
                      !.is_offline = IF is_offline THEN 1 ELSE 0]]
    ELSE Append(rows,
            [id |-> Len(rows) + 1,
             original_word |-> word,
             detected_language |-> language,
             translation_en |-> Get(translations, "en", NoneStr),
             translation_es |-> Get(translations, "es", NoneStr),
             translation_hi |-> Get(translations, "hi", NoneStr),
             context |-> context,
             source |-> IF is_offline THEN "offline" ELSE "chat",
             is_validated |-> 1,
             is_offline |-> IF is_offline THEN 1 ELSE 0])

-----------------------------------------------------------------------------
(* The translation collaborator *)

Raise == [raised |-> TRUE]

R_valid == [en |-> T_water, es |-> W_agua, hi |-> T_pani]
R_marker == [en |-> T_hello, es |-> T_offline_hola, hi |-> T_namaste]

TranslatorReplies == {R_valid, R_marker}

\* what a call translation_service.translate_to_all(word) can produce at all
TranslatorOutcomes(word) ==
    {Raise} \cup
    {[original |-> word, detected_lang |-> "es",
      en |-> r.en, es |-> r.es, hi |-> r.hi] : r \in TranslatorReplies}

\* the collaborators with nothing known about them
EnvAny == [net |-> "any", translator |-> "any", poison |-> {}]

\* max_retries of GoogletransTranslationService.__init__
max_retries == 3

\* the characters of this model in the range "\u0900".."\u097F"
Devanagari ==
    { "u0902", "u090f", "u0914", "u0915", "u0924", "u0925", "u0928", "u092a",
      "u092d", "u092e", "u092f", "u0930", "u0935", "u0938", "u0939", "u093e",
      "u0940", "u0947", "u0948", "u094b" }

spanish_indicators ==
    { <<"u00e9", "l">>, <<"e", "l", "l", "a">>, <<"u", "s", "t", "e", "d">>,
      <<"p", "o", "r", " ", "q", "u", "u00e9">>, <<"q", "u", "u00e9">>,
      <<"c", "u00f3", "m", "o">> }

\* s contains sub as a substring (the `in` of Python strings)
HasSubstring(s, sub) ==
    \E k \in 1..(Len(s) - Len(sub) + 1) : SubSeq(s, k, k + Len(sub) - 1) = sub

\* how many attempts of one call of the googletrans provider fail in a row, from
\* the first on: max_retries of them means that no attempt succeeds
ProviderFailures ==
    IF env.translator = "googletrans_down" THEN {max_retries} ELSE 0..max_retries

\* what the provider answers when an attempt succeeds
ProviderText(text, target_lang) == R_valid[target_lang]
ProviderLang(text) == "es"

\* lines 33-42: _simple_language_detection
SimpleLanguageDetection(text) ==
    IF \E k \in 1..Len(text) : text[k] \in Devanagari THEN "hi"
    ELSE IF \E ind \in spanish_indicators : HasSubstring(Lower(text), ind) THEN "es"
    ELSE "en"

\* lines 16-31: detect_language retries, then falls back on the script test
DetectLanguage(text, failures) ==
    IF text = <<>> \/ Strip(text) = <<>> THEN "unknown"
    ELSE IF failures < max_retries THEN ProviderLang(text)
    ELSE SimpleLanguageDetection(text)

\* lines 51-65: translate_text retries, then returns the text it was given
TranslateText(text, target_lang, failures) ==
    IF text = <<>> \/ Strip(text) = <<>> THEN text
    ELSE IF failures < max_retries THEN ProviderText(text, target_lang)
    ELSE text

\* lines 67-107: GoogletransTranslationService.translate_to_all
GoogletransTranslateToAll(text) ==
    IF text = <<>>
    THEN {[original |-> <<>>, detected_lang |-> "unknown", en |-> <<>>, es |-> <<>>, hi |-> <<>>]}
    ELSE IF Len(Strip(text)) < 2
    THEN {[original |-> text, detected_lang |-> DetectLanguage(text, fd),
           en |-> IF DetectLanguage(text, fd) = "en" THEN text ELSE <<>>,
           es |-> IF DetectLanguage(text, fd) = "es" THEN text ELSE <<>>,
           hi |-> IF DetectLanguage(text, fd) = "hi" THEN text ELSE <<>>] :
              fd \in ProviderFailures}
    ELSE {[original |-> text, detected_lang |-> DetectLanguage(text, fd),
           en |-> IF DetectLanguage(text, fd) = "en" THEN text ELSE TranslateText(text, "en", f[1]),
           es |-> IF DetectLanguage(text, fd) = "es" THEN text ELSE TranslateText(text, "es", f[2]),
           hi |-> IF DetectLanguage(text, fd) = "hi" THEN text ELSE TranslateText(text, "hi", f[3])] :
              fd \in ProviderFailures, f \in [1..3 -> ProviderFailures]}

\* what one call translation_service.translate_to_all(word) produces now: an
\* exception for a word the provider cannot handle, good translations once the
\* provider has recovered for good, anything before that
TranslateToAll(word) ==
    IF word \in env.poison THEN {Raise}
    ELSE IF env.translator \in {"googletrans", "googletrans_down"}
    THEN GoogletransTranslateToAll(word)
    ELSE IF env.translator = "healthy"
    THEN {[original |-> word, detected_lang |-> "es",
           en |-> R_valid.en, es |-> R_valid.es, hi |-> R_valid.hi]}
    ELSE TranslatorOutcomes(word)

-----------------------------------------------------------------------------
(* Word extraction of the transcription thread *)

X_la_roja == <<"L", "a", " ", "r", "o", "j", "a", ".">>

\* what the recognizers hand to the transcription thread: (text, language)
Utterances == { <<X_la_roja, "es">> }

Punctuation == {".", ",", "!", "?", ";", ":", "\"", "'", "(", ")", "[", "]", "{", "}"}

Letters == DOMAIN UpperToLower \cup {UpperToLower[c] : c \in DOMAIN UpperToLower}

\* str.split()
RECURSIVE Split(_)
Split(text) ==
    LET s == LStrip(text) IN
    IF s = <<>> THEN <<>>
    ELSE LET ends == {k \in 1..Len(s) : s[k] \in Whitespace}
             n == IF ends = {} THEN Len(s) + 1 ELSE CHOOSE k \in ends : \A m \in ends : k <= m
         IN <<SubSeq(s, 1, n - 1)>> \o Split(SubSeq(s, n, Len(s)))

\* word.strip('.,!?;:"\'()[]{}')
RECURSIVE StripPunctuation(_)
StripPunctuation(s) ==
    IF s # <<>> /\ Head(s) \in Punctuation THEN StripPunctuation(Tail(s))
    ELSE IF s # <<>> /\ s[Len(s)] \in Punctuation THEN StripPunctuation(SubSeq(s, 1, Len(s) - 1))
    ELSE s

\* str.isalpha()
IsAlpha(s) == s # <<>> /\ \A k \in 1..Len(s) : s[k] \in Letters

\* common_words of extract_and_save_words
common_words ==
    [en |-> {
      <<"t", "h", "e">>, <<"b", "e">>, <<"t", "o">>, <<"o", "f">>, <<"a", "n", "d">>, <<"a">>,
      <<"i", "n">>, <<"t", "h", "a", "t">>, <<"h", "a", "v", "e">>, <<"i">>, <<"i", "t">>,
      <<"f", "o", "r">>, <<"n", "o", "t">>, <<"o", "n">>, <<"w", "i", "t", "h">>, <<"a", "s">>,
      <<"y", "o", "u">>, <<"d", "o">>, <<"a", "t">> },
     es |-> {
      <<"e", "l">>, <<"l", "a">>, <<"d", "e">>, <<"q", "u", "e">>, <<"y">>, <<"a">>, <<"e", "n">>,
      <<"u", "n">>, <<"s", "e", "r">>, <<"s", "e">>, <<"n", "o">>, <<"h", "a", "b", "e", "r">>,
      <<"p", "o", "r">>, <<"c", "o", "n">>, <<"s", "u">>, <<"p", "a", "r", "a">>,
      <<"c", "o", "m", "o">>, <<"e", "s", "t", "a", "r">> },
     hi |-> {
      <<"u0914", "u0930">>, <<"u0939", "u0948">>, <<"u0938", "u0947">>, <<"u0915", "u093e">>,
      <<"u090f", "u0915">>, <<"u092e", "u0947", "u0902">>, <<"u0915", "u0940">>,
      <<"u0915", "u094b">>, <<"u092f", "u0939">>, <<"u0935", "u0939">>, <<"u0928">>,
      <<"u0915", "u0930">>, <<"u0928", "u0947">>, <<"u092a", "u0930">>, <<"u092d", "u0940">>,
      <<"u0924", "u094b">>, <<"u0939", "u094b">>, <<"u0925", "u093e">>, <<"u0939", "u0940">> }]

IsCommon(word_clean) == \E lang_code \in DOMAIN common_words : word_clean \in common_words[lang_code]

\* the test of extract_and_save_words on one token
IsMeaningful(word_clean) == Len(word_clean) > 2 /\ IsAlpha(word_clean) /\ ~ IsCommon(word_clean)

\* extract_potential_new_words
ExtractPotentialNewWords(text) ==
    LET cleaned == [k \in 1..Len(Split(text)) |-> Lower(StripPunctuation(Split(text)[k]))]
    IN SelectSeq(cleaned, LAMBDA w : Len(w) > 2 /\ IsAlpha(w))

\* the entry extract_and_save_words builds
TranscriberEntry(word_clean, lang, text, ts, audio_path) ==
    [word |-> word_clean, language |-> lang, context |-> text, timestamp |-> ts,
     audio_reference |-> audio_path, source |-> "transcription", status |-> "pending",
     is_offline |-> TRUE]

\* save_to_json: existing_data.append(data)
SaveToJson(existing_data, data) == Append(existing_data, data)

\* the INSERT of transcriber.save_unvalidated_word
DbInsertUnvalidated(rows, word, lang, context) ==
    Append(rows,
        [id |-> Len(rows) + 1,
         original_word |-> word,
         detected_language |-> lang,
         translation_en |-> NoneStr,
         translation_es |-> NoneStr,
         translation_hi |-> NoneStr,
         context |-> context,
         source |-> "transcription",
         is_validated |-> 0,
         is_offline |-> 0])

-----------------------------------------------------------------------------
(* Initial state *)

SaverIdle ==
    [data |-> <<>>, word |-> <<>>, language |-> "", context |-> <<>>, during |-> FALSE,
     ret |-> "none"]

PasserIdle ==
    [snapshot |-> <<>>, idx |-> 0, processed |-> <<>>, remaining |-> <<>>,
     errors |-> <<>>, attempts |-> <<>>, translations |-> Raise, existing |-> 0,
     vdata |-> <<>>, db0 |-> <<>>, val0 |-> <<>>, ret |-> -1]

TranscriberIdle ==
    [text |-> <<>>, lang |-> "", audio_path |-> 0, call |-> 0, words |-> <<>>, i |-> 0,
     online_status |-> TRUE, data |-> <<>>]

GateIdle == [called |-> FALSE]

\* no request served yet: the probe's answer, the HTTP status code and the JSON body
RouteIdle ==
    [conn |-> "none", probe |-> "none", code |-> 0, status |-> "none", processed_count |-> -1]

\* an UnvalidatedWordManager with batch_size 1 that has not been called.
\* History: `failed` holds the ids whose translate_to_all call raised in the
\* latest call, `selected` the ids that call read.
ManagerIdle ==
    [batch_size |-> 1, words |-> <<>>, i |-> 0, processed |-> <<>>, ret |-> -1,
     raised |-> FALSE, failed |-> {}, selected |-> {}]

\* no chat request served yet.  `call` says which call of
\* save_unknown_words_offline the request is in: the one inside
\* get_offline_translation_vosk or the one in the offline branch of chat_text.
\* History: `saves` holds the words handed to save_unvalidated_word, `dark` says
\* that every probe of the request said offline, `ran` counts the calls of
\* save_unknown_words_offline that went through their loop, `before` is the
\* pending collection the request found.  `online` is the flag of the response.
ChatIdle ==
    [message |-> <<>>, lang |-> "", is_online |-> FALSE, call |-> "none", words |-> <<>>,
     i |-> 0, saves |-> <<>>, dark |-> TRUE, ran |-> 0, before |-> <<>>, code |-> 0,
     online |-> FALSE]

\* no merge made yet: which helper runs, the list it read, its loop index and
\* count, what it returned.  History: `before` holds the pairs that were pending
\* in data/unvalidated.json when the helper was called.
MergeIdle ==
    [helper |-> "none", transcriber_data |-> <<>>, i |-> 0, merged_count |-> 0, ret |-> -1,
     before |-> {}]

\* the locals of a thread that is in no call
Idle(p) ==
    IF p \in Savers THEN SaverIdle
    ELSE IF p \in Passers THEN PasserIdle
    ELSE IF p \in Transcribers THEN TranscriberIdle
    ELSE IF p \in Managers THEN ManagerIdle
    ELSE IF p \in Chats THEN ChatIdle
    ELSE IF p \in Mergers THEN MergeIdle
    ELSE RouteIdle

\* BackgroundSyncService.__init__: not running, no thread.  `phase` is where
\* every thread start() can spawn stands in _sync_loop.  History: `stops` says
\* that stop() has been asked for; `last` is the outcome of a thread's latest
\* probe and `prev` of the one before, `tick` flips at each of its probes,
\* `rested` says that it has slept a full interval since its latest probe.
SvcIdle ==
    [running |-> FALSE, thread |-> "none",
     phase |-> [l \in Loops |-> "unborn"],
     stops |-> FALSE,
     last |-> [l \in Loops |-> "none"],
     prev |-> [l \in Loops |-> "none"],
     tick |-> [l \in Loops |-> FALSE],
     rested |-> [l \in Loops |-> FALSE]]

\* no thread is inside a call; nothing has been heard, tried or scheduled
InitProcess ==
    /\ now = 0
    /\ pc = [p \in Procs |-> "idle"]
    /\ loc = [p \in Procs |-> Idle(p)]
    /\ heard = 0
    /\ passes = 0
    /\ tried = {}
    /\ gate = GateIdle
    /\ svc = SvcIdle
    /\ env = EnvAny

\* _init_json_files and _init_db have run on a fresh data directory
InitStores ==
    /\ unvalidated = <<>>
    /\ validated = <<>>
    /\ db = <<>>
    /\ kind = [unvalidated |-> "list", validated |-> "list"]
    /\ om = [state |-> "ready", found |-> kind]

Init == InitProcess /\ InitStores /\ faults = 0

\* what a data directory left by an earlier run can hold besides sound lists
StaleContents == {<<>>, <<NewEntry(W_agua, "es", C_direct, 0, TRUE)>>}

\* a process that has not built its OfflineManager yet, on a data directory whose
\* files may be missing, unparseable or not lists
InitCorrupt ==
    /\ InitProcess
    /\ db = <<>>
    /\ faults = 0
    /\ kind \in [{"unvalidated", "validated"} -> FileKinds]
    /\ unvalidated \in StaleContents
    /\ validated \in StaleContents
    /\ kind.unvalidated \in {"missing", "list"} => unvalidated = <<>>
    /\ kind.validated \in {"missing", "list"} => validated = <<>>
    /\ kind.unvalidated \in {"object", "garbage"} => unvalidated # <<>>
    /\ kind.validated \in {"object", "garbage"} => validated # <<>>
    /\ om = [state |-> "absent", found |-> kind]

\* a start on a data directory in which an earlier run left pending entries
Backlog == <<NewEntry(W_agua, "es", C_chat, 0, TRUE)>>

InitBacklog ==
    /\ InitProcess
    /\ unvalidated = Backlog
    /\ validated = <<>>
    /\ db = <<>>
    /\ kind = [unvalidated |-> "list", validated |-> "list"]
    /\ om = [state |-> "ready", found |-> kind]
    /\ faults = 0

\* the words of the rows transcriber.save_unvalidated_word left in the table
TableWords == {W_agua, W_roja}

RECURSIVE Seed(_)
Seed(ws) ==
    IF ws = <<>> THEN <<>>
    ELSE DbInsertUnvalidated(Seed(SubSeq(ws, 1, Len(ws) - 1)), ws[Len(ws)], "es", C_chat)

\* the tables a start can find: up to MaxRows pending rows, oldest first
Tables ==
    {Seed(ws) : ws \in {f \in UNION {[1..n -> TableWords] : n \in 1..MaxRows} :
                           \A i, j \in DOMAIN f : f[i] = f[j] => i = j}}

\* the values of batch_size the manager is constructed with
BatchSizes == {1, 2}

\* a start on a table that holds pending rows, with a manager of some batch
\* size, a provider that fails for good on some words and is either already
\* sound on the others or not
InitTable ==
    /\ now = 0
    /\ pc = [p \in Procs |-> "idle"]
    /\ \E b \in BatchSizes :
          loc = [p \in Procs |-> IF p \in Managers THEN [ManagerIdle EXCEPT !.batch_size = b]
                                 ELSE Idle(p)]
    /\ heard = 0
    /\ passes = 0
    /\ tried = {}
    /\ gate = GateIdle
    /\ svc = SvcIdle
    /\ unvalidated = <<>>
    /\ validated = <<>>
    /\ db \in Tables
    /\ kind = [unvalidated |-> "list", validated |-> "list"]
    /\ om = [state |-> "ready", found |-> kind]
    /\ faults = 0
    /\ \E ws \in SUBSET TableWords, t \in {"any", "healthy"} :
          env = [net |-> "any", translator |-> t, poison |-> ws]

\* the backlogs of unvalidated.json a start can find
Backlogs == {Backlog, Append(Backlog, NewEntry(W_roja, "es", C_chat, 0, TRUE))}

\* a start with a backlog and GoogletransTranslationService as the translation
\* service, its provider either unreliable or unreachable
InitProvider ==
    /\ now = 0
    /\ pc = [p \in Procs |-> "idle"]
    /\ loc = [p \in Procs |-> Idle(p)]
    /\ heard = 0
    /\ passes = 0
    /\ tried = {}
    /\ gate = GateIdle
    /\ svc = SvcIdle
    /\ unvalidated \in Backlogs
    /\ validated = <<>>
    /\ db = <<>>
    /\ kind = [unvalidated |-> "list", validated |-> "list"]
    /\ om = [state |-> "ready", found |-> kind]
    /\ faults = 0
    /\ \E t \in {"googletrans", "googletrans_down"} : env = [EnvAny EXCEPT !.translator = t]

\* a start of one of the two variants, with collaborators that may fail now and
\* recover later: the application with its OfflineManager and a backlog in
\* unvalidated.json, or a process that only has an UnvalidatedWordManager and
\* pending rows in the table
InitHeal ==
    /\ now = 0
    /\ pc = [p \in Procs |-> "idle"]
    /\ heard = 0
    /\ passes = 0
    /\ tried = {}
    /\ gate = GateIdle
    /\ svc = SvcIdle
    /\ validated = <<>>
    /\ kind = [unvalidated |-> "list", validated |-> "list"]
    /\ faults = 0
    /\ env = EnvAny
    /\ \/ /\ om = [state |-> "ready", found |-> kind]
          /\ unvalidated \in Backlogs
          /\ db = <<>>
          /\ loc = [p \in Procs |-> Idle(p)]
       \/ /\ om = [state |-> "absent", found |-> kind]
          /\ unvalidated = <<>>
          /\ db \in Tables
          /\ \E b \in BatchSizes :
                loc = [p \in Procs |-> IF p \in Managers
                                       THEN [ManagerIdle EXCEPT !.batch_size = b]
                                       ELSE Idle(p)]

\* the same start in an environment whose storage can fail and whose process can stop
InitFaulty == InitProcess /\ InitStores /\ faults = MaxFaults

\* history: a reconciliation pass is between its snapshot and its return
PassInProgress == \E q \in Passers : pc[q] # "idle"

-----------------------------------------------------------------------------
(* OfflineManager.__init__ and the end of the process *)

\* one round of the loop of _init_json_files on one file.  A missing file is
\* created; a file that does not parse is recreated inside the except branch,
\* where a failing write is not caught; any other file is left as it is.
InitJsonFile(k, content, w) ==
    CASE k = "missing" ->
            [kind |-> WriteJsonFile(k, content, <<>>, w).kind,
             content |-> WriteJsonFile(k, content, <<>>, w).content, raised |-> FALSE]
      [] k = "garbage" ->
            [kind |-> WriteJsonFile(k, content, <<>>, w).kind,
             content |-> WriteJsonFile(k, content, <<>>, w).content, raised |-> w # "ok"]
      [] OTHER -> [kind |-> k, content |-> content, raised |-> FALSE]

\* whether _init_json_files opens the file for writing
Rewrites(k) == k \in {"missing", "garbage"}

\* lines 12-39 and 41-62: OfflineManager() in a process that has none yet
Construct ==
    /\ om.state # "ready"
    /\ \E wu \in WriteOutcomes(faults) :
          /\ (~ Rewrites(kind.unvalidated)) => wu = "ok"
          /\ LET u == InitJsonFile(kind.unvalidated, unvalidated, wu)
                 left == IF wu = "ok" THEN faults ELSE faults - 1
             IN IF u.raised
                THEN /\ unvalidated' = u.content
                     /\ kind' = [kind EXCEPT !.unvalidated = u.kind]
                     /\ faults' = left
                     /\ om' = [state |-> "failed", found |-> kind]
                     /\ UNCHANGED validated
                ELSE \E wv \in WriteOutcomes(left) :
                       /\ (~ Rewrites(kind.validated)) => wv = "ok"
                       /\ LET v == InitJsonFile(kind.validated, validated, wv) IN
                          /\ unvalidated' = u.content
                          /\ validated' = v.content
                          /\ kind' = [unvalidated |-> u.kind, validated |-> v.kind]
                          /\ faults' = IF wv = "ok" THEN left ELSE left - 1
                          /\ om' = [state |-> IF v.raised THEN "failed" ELSE "ready", found |-> kind]
    /\ UNCHANGED <<db, now, pc, loc, heard, passes, tried, gate, svc, env>>

\* the locals a stopped thread leaves behind: none, except the history of the
\* snapshot a pass had taken
Stopped(p) ==
    IF p \in Passers
    THEN IF pc[p] = "idle" THEN loc[p]
         ELSE [PasserIdle EXCEPT !.snapshot = loc[p].snapshot, !.ret = -2]
    ELSE Idle(p)

\* the process stops at any point: every thread is gone, the files and the
\* table are what they were
Crash ==
    /\ om.state = "ready"
    /\ faults > 0
    /\ faults' = faults - 1
    /\ om' = [om EXCEPT !.state = "absent"]
    /\ pc' = [p \in Procs |-> "idle"]
    /\ loc' = [p \in Procs |-> Stopped(p)]
    /\ svc' = SvcIdle
    /\ UNCHANGED <<unvalidated, validated, db, now, heard, passes, tried, gate, kind, env>>

-----------------------------------------------------------------------------
(* OfflineManager.save_unvalidated_word *)

\* lines 97-121: read the file, test for a duplicate, build the entry
SaveBegin(p, word, language, context, is_offline) ==
    /\ pc[p] = "idle"
    /\ om.state = "ready"
    /\ LET data == ReadJsonFile(kind.unvalidated, unvalidated) IN
       IF ScanRaises(data, word, language)
       THEN /\ loc' = [loc EXCEPT ![p] =
                        [data |-> <<>>, word |-> word, language |-> language,
                         context |-> context, during |-> PassInProgress, ret |-> "False"]]
            /\ UNCHANGED <<now, pc>>
       ELSE IF WordExists(data, word, language)
       THEN /\ loc' = [loc EXCEPT ![p] =
                        [data |-> <<>>, word |-> word, language |-> language,
                         context |-> context, during |-> PassInProgress, ret |-> "True"]]
            /\ UNCHANGED <<now, pc>>
       ELSE /\ now < MaxTime
            /\ loc' = [loc EXCEPT ![p] =
                        [data |-> Append(data, NewEntry(word, language, context, now, is_offline)),
                         word |-> word, language |-> language, context |-> context,
                         during |-> FALSE, ret |-> "none"]]
            /\ now' = now + 1
            /\ pc' = [pc EXCEPT ![p] = "save_write"]
    /\ UNCHANGED <<unvalidated, validated, db, heard, passes, tried, gate, kind, faults, om, svc, env>>

\* lines 124-127: write the list back and return True
SaveWrite(p) ==
    /\ pc[p] = "save_write"
    /\ \E w \in WriteOutcomes(faults) :
          LET f == WriteJsonFile(kind.unvalidated, unvalidated, loc[p].data, w) IN
          /\ unvalidated' = f.content
          /\ kind' = [kind EXCEPT !.unvalidated = f.kind]
          /\ faults' = IF w = "ok" THEN faults ELSE faults - 1
    /\ loc' = [loc EXCEPT ![p].ret = "True", ![p].data = <<>>, ![p].during = PassInProgress]
    /\ pc' = [pc EXCEPT ![p] = "idle"]
    /\ UNCHANGED <<validated, db, now, heard, passes, tried, gate, om, svc, env>>

-----------------------------------------------------------------------------
(* OfflineManager.process_unvalidated *)

\* a loop that gives up at the first failure
AfterFailure_Abort(idx, n) == n + 1

\* the for loop goes on with the next entry after the except branch
AfterFailure(idx, n) == idx + 1

\* an empty word handled like a failed translation
SkipEmpty_Requeued(remaining, entry) == Append(remaining, entry)

\* what `continue` after errors.append("Empty word") leaves in `remaining`
SkipEmpty(remaining, entry) == remaining

\* an except branch that only records the error
KeepForRetry_Dropped(remaining, entry) == remaining

\* what the except branch does with the entry: remaining.append(entry)
KeepForRetry(remaining, entry) == Append(remaining, entry)

\* lines 150-159: snapshot of the pending entries; return 0 when there are none
ProcBegin(p) ==
    /\ pc[p] = "idle"
    /\ om.state = "ready"
    /\ passes < MaxPasses
    /\ passes' = passes + 1
    /\ LET snap == GetUnvalidatedWords(kind.unvalidated, unvalidated) IN
       IF snap = <<>>
       THEN /\ loc' = [loc EXCEPT ![p] = [PasserIdle EXCEPT !.ret = 0]]
            /\ UNCHANGED pc
       ELSE /\ loc' = [loc EXCEPT ![p] = [PasserIdle EXCEPT !.snapshot = snap, !.idx = 1,
                                                         !.db0 = db, !.val0 = validated]]
            /\ pc' = [pc EXCEPT ![p] = "loop"]
    /\ UNCHANGED <<unvalidated, validated, db, now, heard, tried, gate, kind, faults, om, svc, env>>

\* lines 161-197 and 243-271: one iteration of the loop up to the SELECT of
\* _save_to_database.  The return value of _save_to_database is not looked at:
\* the entry goes to `processed` whenever translate_to_all returned.
ProcTranslate(p) ==
    /\ pc[p] = "loop"
    /\ loc[p].idx <= Len(loc[p].snapshot)
    /\ LET l == loc[p]
           entry == l.snapshot[l.idx]
           word == Get(entry, "word", <<>>)
           language == Get(entry, "language", "")
       IN IF word = <<>>
          THEN /\ loc' = [loc EXCEPT ![p].errors = Append(@, word),
                                     ![p].remaining = SkipEmpty(@, entry),
                                     ![p].idx = @ + 1]
               /\ UNCHANGED <<pc, tried>>
          ELSE \E out \in TranslateToAll(word) :
                 IF out = Raise
                 THEN /\ loc' = [loc EXCEPT ![p].errors = Append(@, word),
                                            ![p].remaining = KeepForRetry(@, entry),
                                            ![p].attempts = Append(@, [entry |-> entry, out |-> out,
                                                                       retry |-> <<word, language>> \in tried,
                                                                       save |-> "none"]),
                                            ![p].idx = AfterFailure(@, Len(l.snapshot))]
                      /\ tried' = tried \cup {<<word, language>>}
                      /\ UNCHANGED pc
                 ELSE IF ~ HasValidTranslations(out)
                 THEN /\ loc' = [loc EXCEPT ![p].processed = Append(@, ProcessedEntry(entry, out, now)),
                                            ![p].attempts = Append(@, [entry |-> entry, out |-> out,
                                                                       retry |-> <<word, language>> \in tried,
                                                                       save |-> "none"]),
                                            ![p].idx = @ + 1]
                      /\ tried' = tried \ {<<word, language>>}
                      /\ UNCHANGED pc
                 ELSE /\ loc' = [loc EXCEPT ![p].translations = out,
                                            ![p].existing = DbSelectExisting(db, word, language),
                                            ![p].attempts = Append(@, [entry |-> entry, out |-> out,
                                                                       retry |-> <<word, language>> \in tried,
                                                                       save |-> "none"])]
                      /\ pc' = [pc EXCEPT ![p] = "db_write"]
                      /\ tried' = tried \ {<<word, language>>}
    /\ UNCHANGED <<unvalidated, validated, db, now, heard, passes, gate, kind, faults, om, svc, env>>

\* lines 273-351 and 183-192: UPDATE or INSERT, commit, processed.append
ProcDbWrite(p) ==
    /\ pc[p] = "db_write"
    /\ LET l == loc[p]
           entry == l.snapshot[l.idx]
       IN /\ \E w \in DbOutcomes(faults) :
                /\ db' = IF w = "ok"
                          THEN DbUpsert(db, l.existing, Get(entry, "word", <<>>),
                                        Get(entry, "language", ""), l.translations,
                                        Get(entry, "context", <<>>), Get(entry, "is_offline", TRUE))
                          ELSE db
                /\ faults' = IF w = "ok" THEN faults ELSE faults - 1
                /\ loc' = [loc EXCEPT
                             ![p].processed = Append(@, ProcessedEntry(entry, l.translations, now)),
                             ![p].attempts[Len(l.attempts)].save = w,
                             ![p].translations = Raise,
                             ![p].existing = 0,
                             ![p].idx = @ + 1]
    /\ pc' = [pc EXCEPT ![p] = "loop"]
    /\ UNCHANGED <<unvalidated, validated, now, heard, passes, tried, gate, kind, om, svc, env>>

\* lines 200-201 and 362: the loop is over, `processed` is not empty; read validated.json
ProcReadValidated(p) ==
    /\ pc[p] = "loop"
    /\ loc[p].idx > Len(loc[p].snapshot)
    /\ loc[p].processed # <<>>
    /\ loc' = [loc EXCEPT ![p].vdata = ReadJsonFile(kind.validated, validated)]
    /\ pc' = [pc EXCEPT ![p] = "validated_write"]
    /\ UNCHANGED <<unvalidated, validated, db, now, heard, passes, tried, gate, kind, faults, om, svc, env>>

\* lines 365-368: extend and write validated.json
ProcWriteValidated(p) ==
    /\ pc[p] = "validated_write"
    /\ \E w \in WriteOutcomes(faults) :
          LET f == WriteJsonFile(kind.validated, validated,
                                 UpdateValidatedFile(loc[p].vdata, loc[p].processed), w) IN
          /\ validated' = f.content
          /\ kind' = [kind EXCEPT !.validated = f.kind]
          /\ faults' = IF w = "ok" THEN faults ELSE faults - 1
    /\ loc' = [loc EXCEPT ![p].vdata = <<>>]
    /\ pc' = [pc EXCEPT ![p] = "write_remaining"]
    /\ UNCHANGED <<unvalidated, db, now, heard, passes, tried, gate, om, svc, env>>

\* lines 204-212: overwrite unvalidated.json with `remaining`, return len(processed).
\* The snapshot and the outcome of every translation stay in `loc` until the next call.
ProcWriteRemaining(p) ==
    /\ \/ pc[p] = "write_remaining"
       \/ /\ pc[p] = "loop"
          /\ loc[p].idx > Len(loc[p].snapshot)
          /\ loc[p].processed = <<>>
    /\ \E w \in WriteOutcomes(faults) :
          LET f == WriteJsonFile(kind.unvalidated, unvalidated, loc[p].remaining, w) IN
          /\ unvalidated' = f.content
          /\ kind' = [kind EXCEPT !.unvalidated = f.kind]
          /\ faults' = IF w = "ok" THEN faults ELSE faults - 1
    /\ loc' = [loc EXCEPT ![p] = [PasserIdle EXCEPT !.snapshot = loc[p].snapshot,
                                                    !.attempts = loc[p].attempts,
                                                    !.ret = Len(loc[p].processed)]]
    /\ pc' = [pc EXCEPT ![p] = "idle"]
    /\ UNCHANGED <<validated, db, now, heard, passes, tried, gate, om, svc, env>>

-----------------------------------------------------------------------------
(* transcriber.transcribe_loop *)

\* lines 310-320: a recognizer accepted the audio; save_transcript is entered
TrRecognize(p, text, lang) ==
    /\ pc[p] = "idle"
    /\ heard < MaxHeard
    /\ heard' = heard + 1
    /\ loc' = [loc EXCEPT ![p] = [TranscriberIdle EXCEPT !.text = text, !.lang = lang,
                                                         !.audio_path = now, !.call = 1]]
    /\ pc' = [pc EXCEPT ![p] = "extract"]
    /\ UNCHANGED <<unvalidated, validated, db, now, passes, tried, gate, kind, faults, om, svc, env>>

\* lines 183-193: extract_and_save_words splits the text and probes the network once
TrExtractBegin(p) ==
    /\ pc[p] = "extract"
    /\ \E online \in BOOLEAN :
          loc' = [loc EXCEPT ![p].words = Split(loc[p].text), ![p].i = 1,
                             ![p].online_status = online]
    /\ pc' = [pc EXCEPT ![p] = "words"]
    /\ UNCHANGED <<unvalidated, validated, db, now, heard, passes, tried, gate, kind, faults, om, svc, env>>

\* lines 195-221 and 140-151: one token; save_to_json reads the file and appends.
\* json.load of a file that does not parse, or append on a document that is not a
\* list, raises inside save_to_json, which then returns False without writing.
TrWord(p) ==
    /\ pc[p] = "words"
    /\ loc[p].i <= Len(loc[p].words)
    /\ LET l == loc[p]
           word_clean == Lower(StripPunctuation(l.words[l.i]))
       IN IF IsMeaningful(word_clean) /\ ~ l.online_status
                /\ kind.unvalidated \in {"list", "missing"}
          THEN /\ loc' = [loc EXCEPT ![p].data =
                            SaveToJson(IF kind.unvalidated = "list" THEN unvalidated ELSE <<>>,
                                TranscriberEntry(word_clean, l.lang, l.text, now, l.audio_path))]
               /\ pc' = [pc EXCEPT ![p] = "json_write"]
          ELSE /\ loc' = [loc EXCEPT ![p].i = @ + 1]
               /\ UNCHANGED pc
    /\ UNCHANGED <<unvalidated, validated, db, now, heard, passes, tried, gate, kind, faults, om, svc, env>>

\* lines 154-158: save_to_json writes the list back
TrJsonWrite(p) ==
    /\ pc[p] = "json_write"
    /\ \E w \in WriteOutcomes(faults) :
          LET f == WriteJsonFile(kind.unvalidated, unvalidated, loc[p].data, w) IN
          /\ unvalidated' = f.content
          /\ kind' = [kind EXCEPT !.unvalidated = f.kind]
          /\ faults' = IF w = "ok" THEN faults ELSE faults - 1
    /\ loc' = [loc EXCEPT ![p].data = <<>>, ![p].i = @ + 1]
    /\ pc' = [pc EXCEPT ![p] = "words"]
    /\ UNCHANGED <<validated, db, now, heard, passes, tried, gate, om, svc, env>>

\* lines 173-178 and 323-329: the first call returns into save_transcript, the loop
\* calls extract_and_save_words a second time, then probes the network
TrExtractEnd(p) ==
    /\ pc[p] = "words"
    /\ loc[p].i > Len(loc[p].words)
    /\ IF loc[p].call = 1
       THEN /\ loc' = [loc EXCEPT ![p].call = 2, ![p].words = <<>>, ![p].i = 0]
            /\ pc' = [pc EXCEPT ![p] = "extract"]
       ELSE \E online \in BOOLEAN :
              IF online
              THEN /\ loc' = [loc EXCEPT ![p] = TranscriberIdle]
                   /\ pc' = [pc EXCEPT ![p] = "idle"]
              ELSE /\ loc' = [loc EXCEPT ![p].call = 3, ![p].i = 1,
                                         ![p].words = ExtractPotentialNewWords(loc[p].text)]
                   /\ pc' = [pc EXCEPT ![p] = "old_select"]
    /\ UNCHANGED <<unvalidated, validated, db, now, heard, passes, tried, gate, kind, faults, om, svc, env>>

\* lines 239-249: transcriber.save_unvalidated_word looks the word up in the table
TrOldSelect(p) ==
    /\ pc[p] = "old_select"
    /\ IF loc[p].i > Len(loc[p].words)
       THEN /\ loc' = [loc EXCEPT ![p] = TranscriberIdle]
            /\ pc' = [pc EXCEPT ![p] = "idle"]
       ELSE IF DbSelectExisting(db, loc[p].words[loc[p].i], loc[p].lang) # 0
       THEN /\ loc' = [loc EXCEPT ![p].i = @ + 1]
            /\ UNCHANGED pc
       ELSE /\ pc' = [pc EXCEPT ![p] = "old_insert"]
            /\ UNCHANGED loc
    /\ UNCHANGED <<unvalidated, validated, db, now, heard, passes, tried, gate, kind, faults, om, svc, env>>

\* lines 251-256: and inserts it as an unvalidated row
TrOldInsert(p) ==
    /\ pc[p] = "old_insert"
    /\ db' = DbInsertUnvalidated(db, loc[p].words[loc[p].i], loc[p].lang, loc[p].text)
    /\ loc' = [loc EXCEPT ![p].i = @ + 1]
    /\ pc' = [pc EXCEPT ![p] = "old_select"]
    /\ UNCHANGED <<unvalidated, validated, now, heard, passes, tried, gate, kind, faults, om, svc, env>>

-----------------------------------------------------------------------------
(* BackgroundSyncService *)

\* lines 758-763: start() sets the flag and spawns a thread, whatever the flag was
SvcStart ==
    /\ om.state = "ready"
    /\ \E l \in Loops :
          /\ svc.phase[l] = "unborn"
          /\ l = "bg2" => svc.phase["bg"] # "unborn"
          /\ svc' = [svc EXCEPT !.running = TRUE, !.thread = l, !.phase[l] = "top"]
    /\ UNCHANGED <<unvalidated, validated, db, now, pc, loc, heard, passes, tried, gate,
                   kind, faults, om, env>>

\* lines 789-792: the one call of start() the application makes, when the module
\* is loaded
ModuleStart ==
    /\ svc.thread = "none"
    /\ SvcStart

\* lines 750-787: the class defines no stop(); the call raises AttributeError and
\* leaves the flag and the threads as they are
SvcStop ==
    /\ om.state = "ready"
    /\ ~ svc.stops
    /\ svc' = [svc EXCEPT !.stops = TRUE]
    /\ UNCHANGED <<unvalidated, validated, db, now, pc, loc, heard, passes, tried, gate,
                   kind, faults, om, env>>

\* how socket.create_connection(("8.8.8.8", 53), timeout=3) can end; "fault" is
\* any failure that is not one of the network
ConnectResults == {"connected", "refused", "unreachable", "timeout", "fault"}

\* the exception create_connection raises
ExceptionRaised(c) ==
    CASE c = "connected" -> "none"
      [] c = "refused" -> "ConnectionRefusedError"
      [] c = "unreachable" -> "OSError"
      [] c = "timeout" -> "TimeoutError"
      [] c = "fault" -> "RuntimeError"

\* the classes `except OSError` catches
OSErrors == {"OSError", "ConnectionRefusedError", "TimeoutError"}

\* a probe that only expects a refused connection
CheckInternet_OnlyRefused(c) ==
    IF ExceptionRaised(c) = "none" THEN "online"
    ELSE IF ExceptionRaised(c) = "ConnectionRefusedError" THEN "offline"
    ELSE "raised"

\* OfflineManager.check_internet (and transcriber.is_online, which has the same
\* body): True, False, or the exception left uncaught
CheckInternet(c) ==
    IF ExceptionRaised(c) = "none" THEN "online"
    ELSE IF ExceptionRaised(c) \in OSErrors THEN "offline"
    ELSE "raised"

\* how a connection attempt can end now
NetResults == IF env.net = "up" THEN {"connected"} ELSE ConnectResults

\* how the connection attempt of a probe that decides on a pass can end now.
\* Online cycles are counted with the passes they start.
Connections ==
    {c \in NetResults :
        c = "connected" =>
            passes + Cardinality({l \in Loops : svc.phase[l] = "call" /\ loc[l].ret = -1})
              < MaxPasses}

\* what check_internet gives its caller now
ProbeOutcomes == {CheckInternet(c) : c \in Connections}

\* a loop that runs the pass whatever the probe said
AfterProbe_IgnoresProbe(outcome) == "call"

\* lines 770-781: the branch the loop takes on the value check_internet returned
AfterProbe(outcome) == IF outcome = "online" THEN "call" ELSE "sleep"

\* an exception that ends the thread
AfterRaise_Dies == "dead"

\* lines 783-787: the except branch logs and falls through to time.sleep
AfterRaise == "sleep"

\* a cycle that starts the next one at once after a pass
AfterCall_NoSleep == "top"

\* lines 776-787: after process_unvalidated returns the loop falls through to time.sleep
AfterCall == "sleep"

\* line 767: while self.running
LoopTop(l) ==
    /\ svc.phase[l] = "top"
    /\ svc' = [svc EXCEPT !.phase[l] = IF svc.running THEN "try" ELSE "dead"]
    /\ UNCHANGED <<unvalidated, validated, db, now, pc, loc, heard, passes, tried, gate,
                   kind, faults, om, env>>

\* line 770: the probe, and the branch taken on its outcome
LoopProbe(l) ==
    /\ svc.phase[l] = "try"
    /\ \E outcome \in ProbeOutcomes :
          /\ svc' = [svc EXCEPT !.phase[l] = IF outcome = "raised" THEN AfterRaise
                                              ELSE AfterProbe(outcome),
                                !.last[l] = outcome,
                                !.prev[l] = svc.last[l],
                                !.tick[l] = ~ @,
                                !.rested[l] = FALSE]
          /\ loc' = [loc EXCEPT ![l] = PasserIdle]
    /\ UNCHANGED <<unvalidated, validated, db, now, pc, heard, passes, tried, gate,
                   kind, faults, om, env>>

\* line 774: the loop enters process_unvalidated
LoopCall(l) ==
    /\ svc.phase[l] = "call"
    /\ loc[l].ret = -1
    /\ ProcBegin(l)

\* lines 776-779: process_unvalidated has returned
LoopAfterCall(l) ==
    /\ svc.phase[l] = "call"
    /\ pc[l] = "idle"
    /\ loc[l].ret >= 0
    /\ svc' = [svc EXCEPT !.phase[l] = AfterCall]
    /\ UNCHANGED <<unvalidated, validated, db, now, pc, loc, heard, passes, tried, gate,
                   kind, faults, om, env>>

\* line 787: time.sleep(self.interval) returns
LoopWake(l) ==
    /\ svc.phase[l] = "sleep"
    /\ svc' = [svc EXCEPT !.phase[l] = "top", !.rested[l] = TRUE]
    /\ UNCHANGED <<unvalidated, validated, db, now, pc, loc, heard, passes, tried, gate,
                   kind, faults, om, env>>

\* every step of the thread of _sync_loop
LoopStep(l) ==
    \/ LoopTop(l)
    \/ LoopProbe(l)
    \/ LoopCall(l)
    \/ ProcTranslate(l)
    \/ ProcDbWrite(l)
    \/ ProcReadValidated(l)
    \/ ProcWriteValidated(l)
    \/ ProcWriteRemaining(l)
    \/ LoopAfterCall(l)
    \/ LoopWake(l)

-----------------------------------------------------------------------------
(* UnvalidatedWordManager (unvalidated_manager.py) *)

\* lines 48-56 and 108-115: ids of the rows WHERE is_validated = 0 ORDER BY
\* created_at, the first `limit` of them
SelectPending(rows, limit) ==
    LET ids == SelectSeq([i \in 1..Len(rows) |-> i], LAMBDA i : rows[i].is_validated = 0)
    IN SubSeq(ids, 1, IF limit < Len(ids) THEN limit ELSE Len(ids))

\* an UPDATE that stores the translations and leaves the row pending
BatchUpdate_LeavesPending(row, translations) ==
    [row EXCEPT !.translation_en = Get(translations, "en", NoneStr),
                !.translation_es = Get(translations, "es", NoneStr),
                !.translation_hi = Get(translations, "hi", NoneStr),
                !.detected_language = Get(translations, "detected_lang", NoneTag)]

\* lines 74-89 and 124-139: the UPDATE of one row
BatchUpdate(row, translations) ==
    [row EXCEPT !.translation_en = Get(translations, "en", NoneStr),
                !.translation_es = Get(translations, "es", NoneStr),
                !.translation_hi = Get(translations, "hi", NoneStr),
                !.detected_language = Get(translations, "detected_lang", NoneTag),
                !.is_validated = 1]

\* an except branch that leaves the row as it was
MarkError_LeavesPending(row) == row

\* lines 147-154: the except branch of process_pending
MarkError(row) == [row EXCEPT !.is_validated = -1]

\* a batch that goes on with the next row after a failure
AfterBatchFailure_Continues(i, n) == i + 1

\* lines 92-95: rollback and re-raise end the call; no later row is looked at
AfterBatchFailure(i, n) == n + 1

\* lines 44-60: process_unvalidate_batch selects its batch; 0 when there is none
BatchBegin(p) ==
    /\ pc[p] = "idle"
    /\ LET words == SelectPending(db, loc[p].batch_size) IN
       IF words = <<>>
       THEN /\ loc' = [loc EXCEPT ![p] = [ManagerIdle EXCEPT !.batch_size = loc[p].batch_size,
                                                            !.ret = 0]]
            /\ UNCHANGED pc
       ELSE /\ loc' = [loc EXCEPT ![p] = [ManagerIdle EXCEPT !.batch_size = loc[p].batch_size,
                                                            !.words = words, !.i = 1,
                                                            !.selected = {words[k] : k \in 1..Len(words)}]]
            /\ pc' = [pc EXCEPT ![p] = "batch"]
    /\ UNCHANGED <<unvalidated, validated, db, now, heard, passes, tried, gate, kind, faults,
                   om, svc, env>>

\* lines 70-95: one iteration: translate, UPDATE, commit; an exception rolls
\* back (nothing is uncommitted) and leaves the call
BatchWord(p) ==
    /\ pc[p] = "batch"
    /\ loc[p].i <= Len(loc[p].words)
    /\ LET id == loc[p].words[loc[p].i] IN
       \E out \in TranslateToAll(db[id].original_word) :
          IF out = Raise
          THEN /\ loc' = [loc EXCEPT ![p].failed = @ \cup {id},
                                     ![p].i = AfterBatchFailure(@, Len(loc[p].words))]
               /\ UNCHANGED db
          ELSE /\ db' = [db EXCEPT ![id] = BatchUpdate(@, out)]
               /\ loc' = [loc EXCEPT ![p].i = @ + 1]
    /\ UNCHANGED <<unvalidated, validated, now, pc, heard, passes, tried, gate, kind, faults,
                   om, svc, env>>

\* lines 92-99: the call ends: the exception reaches the caller, or len(words)
\* is returned
BatchEnd(p) ==
    /\ pc[p] = "batch"
    /\ loc[p].i > Len(loc[p].words)
    /\ loc' = [loc EXCEPT ![p].raised = loc[p].failed # {},
                          ![p].ret = IF loc[p].failed # {} THEN -1 ELSE Len(loc[p].words),
                          ![p].words = <<>>, ![p].i = 0]
    /\ pc' = [pc EXCEPT ![p] = "idle"]
    /\ UNCHANGED <<unvalidated, validated, db, now, heard, passes, tried, gate, kind, faults,
                   om, svc, env>>

BatchStep(p) ==
    \/ BatchBegin(p)
    \/ BatchWord(p)
    \/ BatchEnd(p)

\* lines 104-116: process_pending selects every pending row
PendBegin(p) ==
    /\ pc[p] = "idle"
    /\ LET words == SelectPending(db, Len(db)) IN
       loc' = [loc EXCEPT ![p] = [ManagerIdle EXCEPT !.batch_size = loc[p].batch_size,
                                                     !.words = words, !.i = 1,
                                                     !.selected = {words[k] : k \in 1..Len(words)}]]
    /\ pc' = [pc EXCEPT ![p] = "pending"]
    /\ UNCHANGED <<unvalidated, validated, db, now, heard, passes, tried, gate, kind, faults,
                   om, svc, env>>

\* lines 118-154: one iteration: translate and UPDATE, or the except branch
PendWord(p) ==
    /\ pc[p] = "pending"
    /\ loc[p].i <= Len(loc[p].words)
    /\ LET id == loc[p].words[loc[p].i] IN
       \E out \in TranslateToAll(db[id].original_word) :
          IF out = Raise
          THEN /\ db' = [db EXCEPT ![id] = MarkError(@)]
               /\ loc' = [loc EXCEPT ![p].failed = @ \cup {id}, ![p].i = @ + 1]
          ELSE /\ db' = [db EXCEPT ![id] = BatchUpdate(@, out)]
               /\ loc' = [loc EXCEPT ![p].processed = Append(@, id), ![p].i = @ + 1]
    /\ UNCHANGED <<unvalidated, validated, now, pc, heard, passes, tried, gate, kind, faults,
                   om, svc, env>>

\* lines 156-159: commit, close, return processed
PendEnd(p) ==
    /\ pc[p] = "pending"
    /\ loc[p].i > Len(loc[p].words)
    /\ loc' = [loc EXCEPT ![p].ret = Len(loc[p].processed), ![p].words = <<>>, ![p].i = 0]
    /\ pc' = [pc EXCEPT ![p] = "idle"]
    /\ UNCHANGED <<unvalidated, validated, db, now, heard, passes, tried, gate, kind, faults,
                   om, svc, env>>

PendStep(p) ==
    \/ PendBegin(p)
    \/ PendWord(p)
    \/ PendEnd(p)

-----------------------------------------------------------------------------
(* The collaborators *)

\* the translation provider recovers for good
Recover ==
    /\ env.translator = "any"
    /\ env' = [env EXCEPT !.translator = "healthy"]
    /\ UNCHANGED <<unvalidated, validated, db, now, pc, loc, heard, passes, tried, gate, kind,
                   faults, om, svc>>

\* the network comes up for good
Connect ==
    /\ env.net = "any"
    /\ env' = [env EXCEPT !.net = "up"]
    /\ UNCHANGED <<unvalidated, validated, db, now, pc, loc, heard, passes, tried, gate, kind,
                   faults, om, svc>>

-----------------------------------------------------------------------------
(* app.chat_text: POST /api/chat/text *)

X_agua_roja == <<"a", "g", "u", "a", " ", "r", "o", "j", "a">>
X_Agua_agua_roja ==
    <<"A", "g", "u", "a", " ", "a", "g", "u", "a", ",", " ", "(", "r", "o", "j", "a", ")">>
X_the_water ==
    <<"T", "h", "e", " ", "w", "a", "t", "e", "r", " ", "i", "s", " ", "c", "o", "l", "d", " ",
      "a", "n", "d", " ", "n", "i", "c", "e">>
X_roja_roja == <<"r", "o", "j", "a", " ", "R", "o", "j", "a", "!">>

\* the messages the chat client sends, with the language detect_language_with_vosk gives
Messages == { <<X_agua_roja, "es">>, <<X_Agua_agua_roja, "es">>, <<X_la_roja, "es">> }

\* what the recognizers hand to the transcription thread when people dictate
Dictations == { <<X_la_roja, "es">>, <<X_roja_roja, "es">>, <<X_the_water, "en">> }

T_Offline == <<"[", "O", "f", "f", "l", "i", "n", "e", "]">>

\* common_words of save_unknown_words_offline
app_common_words ==
    [en |-> {
      <<"t", "h", "e">>, <<"b", "e">>, <<"t", "o">>, <<"o", "f">>, <<"a", "n", "d">>, <<"a">>,
      <<"i", "n">>, <<"t", "h", "a", "t">>, <<"h", "a", "v", "e">>, <<"i">> },
     es |-> {
      <<"e", "l">>, <<"l", "a">>, <<"d", "e">>, <<"q", "u", "e">>, <<"y">>, <<"a">>, <<"e", "n">>,
      <<"u", "n">>, <<"s", "e", "r">>, <<"s", "e">> },
     hi |-> {
      <<"u0914", "u0930">>, <<"u0939", "u0948">>, <<"u0938", "u0947">>, <<"u0915", "u093e">>,
      <<"u090f", "u0915">>, <<"u092e", "u0947", "u0902">>, <<"u0915", "u0940">>,
      <<"u0915", "u094b">>, <<"u092f", "u0939">>, <<"u0935", "u0939">> }]

\* a test that looks only at the stop words of the detected language
IsUnknownWord_OwnLanguage(word_clean, lang) ==
    /\ Len(word_clean) > 2
    /\ IsAlpha(word_clean)
    /\ word_clean \notin app_common_words[lang]

\* lines 660-668: the test of save_unknown_words_offline on one cleaned token
IsUnknownWord(word_clean, lang) ==
    /\ Len(word_clean) > 2
    /\ IsAlpha(word_clean)
    /\ ~ \E l \in DOMAIN app_common_words : word_clean \in app_common_words[l]

\* lines 607-630: get_cached_translations
CachedTranslations(vdata, text) ==
    LET words == Range(Split(Lower(text)))
        hits == {k \in 1..Len(vdata) :
                    /\ "word" \in DOMAIN vdata[k]
                    /\ Lower(vdata[k].word) \in words
                    /\ "translations" \in DOMAIN vdata[k]}
        found == IF hits = {} THEN <<>>
                 ELSE vdata[CHOOSE k \in hits : \A m \in hits : k <= m].translations
    IN [en |-> Get(found, "en", text),
        es |-> Get(found, "es", T_Offline \o <<" ">> \o text),
        hi |-> Get(found, "hi", T_Offline \o <<" ">> \o text)]

\* lines 66-70: get_offline_translation_vosk answers from the cache and saves nothing
UsesCache(vdata, text) ==
    LET cached == CachedTranslations(vdata, text) IN
    /\ cached.en # <<>> /\ cached.es # <<>> /\ cached.hi # <<>>
    /\ ~ StartsWith(cached.es, T_Offline)
    /\ ~ StartsWith(cached.hi, T_Offline)

\* lines 272-279: where chat_text goes when get_offline_translation_vosk or
\* save_unknown_words_offline returns: the offline branch calls
\* save_unknown_words_offline itself after get_offline_translation_vosk, the
\* fallback of the online branch does not
AfterSaveCall(call, is_online) ==
    IF call = "vosk" /\ ~ is_online THEN "chat_tail" ELSE "chat_respond"

\* lines 244-260 and 272-276: the first probe and the branch on it; an exception
\* of the probe ends the request with 500
ChatBegin(message, lang) ==
    /\ pc["chat"] = "idle"
    /\ pc["req2"] = "idle"
    /\ om.state = "ready"
    /\ \E c \in NetResults :
          LET outcome == CheckInternet(c) IN
          /\ loc' = [loc EXCEPT !["chat"] =
                        [ChatIdle EXCEPT !.message = message, !.lang = lang,
                                         !.is_online = (outcome = "online"),
                                         !.before = GetUnvalidatedWords(kind.unvalidated,
                                                                        unvalidated),
                                         !.dark = (outcome = "offline"),
                                         !.code = IF outcome = "raised" THEN 500 ELSE 0]]
          /\ pc' = [pc EXCEPT !["chat"] =
                        CASE outcome = "online" -> "chat_translate"
                          [] outcome = "offline" -> "chat_cache"
                          [] outcome = "raised" -> "idle"]
    /\ UNCHANGED <<unvalidated, validated, db, now, heard, passes, tried, gate, kind, faults,
                   om, svc, env>>

\* lines 261-271: online, translate the message; fall back to the offline path
\* when the translator raises
ChatTranslate ==
    /\ pc["chat"] = "chat_translate"
    /\ \E out \in TranslateToAll(loc["chat"].message) :
          pc' = [pc EXCEPT !["chat"] = IF out = Raise THEN "chat_cache" ELSE "chat_respond"]
    /\ UNCHANGED <<unvalidated, validated, db, now, loc, heard, passes, tried, gate, kind,
                   faults, om, svc, env>>

\* lines 62-82: get_offline_translation_vosk looks in the cache; without a full
\* cached translation it calls save_unknown_words_offline
ChatCache ==
    /\ pc["chat"] = "chat_cache"
    /\ IF UsesCache(ReadJsonFile(kind.validated, validated), loc["chat"].message)
       THEN /\ pc' = [pc EXCEPT !["chat"] = AfterSaveCall("vosk", loc["chat"].is_online)]
            /\ loc' = [loc EXCEPT !["chat"].call = "vosk"]
       ELSE /\ pc' = [pc EXCEPT !["chat"] = "chat_save"]
            /\ loc' = [loc EXCEPT !["chat"].call = "vosk"]
    /\ UNCHANGED <<unvalidated, validated, db, now, heard, passes, tried, gate, kind, faults,
                   om, svc, env>>

\* line 279: the offline branch of chat_text calls save_unknown_words_offline itself
ChatTail ==
    /\ pc["chat"] = "chat_tail"
    /\ pc' = [pc EXCEPT !["chat"] = "chat_save"]
    /\ loc' = [loc EXCEPT !["chat"].call = "tail"]
    /\ UNCHANGED <<unvalidated, validated, db, now, heard, passes, tried, gate, kind, faults,
                   om, svc, env>>

\* lines 644-657: save_unknown_words_offline probes again; online it returns at
\* once, offline it splits the text
ChatSaveProbe ==
    /\ pc["chat"] = "chat_save"
    /\ \E c \in NetResults :
          LET outcome == CheckInternet(c) IN
          /\ loc' = [loc EXCEPT
                       !["chat"].dark = @ /\ outcome = "offline",
                       !["chat"].words = IF outcome = "offline" THEN Split(loc["chat"].message)
                                         ELSE <<>>,
                       !["chat"].i = IF outcome = "offline" THEN 1 ELSE 0,
                       !["chat"].ran = IF outcome = "offline" THEN @ + 1 ELSE @,
                       !["chat"].code = IF outcome = "raised" THEN 500 ELSE @]
          /\ pc' = [pc EXCEPT !["chat"] =
                        CASE outcome = "online" ->
                               AfterSaveCall(loc["chat"].call, loc["chat"].is_online)
                          [] outcome = "offline" -> "chat_words"
                          [] outcome = "raised" -> "idle"]
    /\ UNCHANGED <<unvalidated, validated, db, now, heard, passes, tried, gate, kind, faults,
                   om, svc, env>>

\* lines 659-668: one token: clean it and test it
ChatWord ==
    /\ pc["chat"] = "chat_words"
    /\ loc["chat"].i <= Len(loc["chat"].words)
    /\ LET l == loc["chat"]
           word_clean == Lower(StripPunctuation(l.words[l.i]))
       IN IF IsUnknownWord(word_clean, l.lang)
          THEN /\ loc' = [loc EXCEPT !["chat"].saves = Append(@, word_clean),
                                     !["req2"] = SaverIdle]
               /\ pc' = [pc EXCEPT !["chat"] = "chat_call"]
          ELSE /\ loc' = [loc EXCEPT !["chat"].i = @ + 1]
               /\ UNCHANGED pc
    /\ UNCHANGED <<unvalidated, validated, db, now, heard, passes, tried, gate, kind, faults,
                   om, svc, env>>

\* lines 669-674: the call of save_unvalidated_word for the token
ChatCall ==
    /\ pc["chat"] = "chat_call"
    /\ loc["req2"].ret = "none"
    /\ LET l == loc["chat"] IN
       SaveBegin("req2", Lower(StripPunctuation(l.words[l.i])), l.lang, l.message, TRUE)

\* lines 675-676: the call returned; go on with the next token
ChatCallReturn ==
    /\ pc["chat"] = "chat_call"
    /\ pc["req2"] = "idle"
    /\ loc["req2"].ret # "none"
    /\ loc' = [loc EXCEPT !["chat"].i = @ + 1]
    /\ pc' = [pc EXCEPT !["chat"] = "chat_words"]
    /\ UNCHANGED <<unvalidated, validated, db, now, heard, passes, tried, gate, kind, faults,
                   om, svc, env>>

\* the loop of save_unknown_words_offline is over
ChatWordsEnd ==
    /\ pc["chat"] = "chat_words"
    /\ loc["chat"].i > Len(loc["chat"].words)
    /\ loc' = [loc EXCEPT !["chat"].words = <<>>, !["chat"].i = 0]
    /\ pc' = [pc EXCEPT !["chat"] = AfterSaveCall(loc["chat"].call, loc["chat"].is_online)]
    /\ UNCHANGED <<unvalidated, validated, db, now, heard, passes, tried, gate, kind, faults,
                   om, svc, env>>

\* lines 270 and 282-308: the 200 response
ChatRespond ==
    /\ pc["chat"] = "chat_respond"
    /\ loc' = [loc EXCEPT !["chat"].code = 200, !["chat"].call = "none",
                          !["chat"].is_online = FALSE,
                          !["chat"].online = loc["chat"].is_online /\ loc["chat"].call = "none"]
    /\ pc' = [pc EXCEPT !["chat"] = "idle"]
    /\ UNCHANGED <<unvalidated, validated, db, now, heard, passes, tried, gate, kind, faults,
                   om, svc, env>>

ChatStep ==
    \/ \E m \in Messages : ChatBegin(m[1], m[2])
    \/ ChatTranslate
    \/ ChatCache
    \/ ChatTail
    \/ ChatSaveProbe
    \/ ChatWord
    \/ ChatCall
    \/ SaveWrite("req2")
    \/ ChatCallReturn
    \/ ChatWordsEnd
    \/ ChatRespond

-----------------------------------------------------------------------------
(* app.merge_transcriber_json_with_offline and app.merge_transcriber_json_data *)

\* the two helpers
MergeHelpers == {"with_offline", "data"}

\* app.py lines 158-160 and 568-572: merge_transcriber_json_with_offline empties
\* the transcriber's file in any case, merge_transcriber_json_data when at least
\* one call of save_unvalidated_word returned True
ClearsAfterMerge(helper, merged_count) ==
    helper = "with_offline" \/ merged_count > 0

\* app.py lines 140-146 and 546-558: the helper reads json_files["unvalidated"] of
\* the transcriber, which is data/unvalidated.json, the file of the
\* OfflineManager (transcriber.py lines 34 and 108, offline_manager.py lines 12
\* and 27).  A missing file is skipped; json.load of a file that does not parse
\* raises, and the helper returns 0.
MergeBegin(helper) ==
    /\ pc["mrg"] = "idle"
    /\ pc["req2"] = "idle"
    /\ om.state = "ready"
    /\ LET before == {Key(e) : e \in Range(GetUnvalidatedWords(kind.unvalidated, unvalidated))}
       IN IF kind.unvalidated = "list"
          THEN /\ loc' = [loc EXCEPT !["mrg"] =
                           [MergeIdle EXCEPT !.helper = helper, !.transcriber_data = unvalidated,
                                             !.i = 1, !.before = before]]
               /\ pc' = [pc EXCEPT !["mrg"] = "merge_loop"]
          ELSE /\ loc' = [loc EXCEPT !["mrg"] =
                           [MergeIdle EXCEPT !.helper = helper, !.ret = 0, !.before = before]]
               /\ UNCHANGED pc
    /\ UNCHANGED <<unvalidated, validated, db, now, heard, passes, tried, gate, kind, faults,
                   om, svc, env>>

\* lines 149-150 and 553-554: one element of the list; entry.get raises on an
\* element that is not a record, and the helper returns 0
MergeEntry ==
    /\ pc["mrg"] = "merge_loop"
    /\ loc["mrg"].i <= Len(loc["mrg"].transcriber_data)
    /\ LET entry == loc["mrg"].transcriber_data[loc["mrg"].i] IN
       IF ~ IsDict(entry)
       THEN /\ loc' = [loc EXCEPT !["mrg"].ret = 0]
            /\ pc' = [pc EXCEPT !["mrg"] = "idle"]
       ELSE IF IsPending(entry)
       THEN /\ loc' = [loc EXCEPT !["req2"] = SaverIdle]
            /\ pc' = [pc EXCEPT !["mrg"] = "merge_call"]
       ELSE /\ loc' = [loc EXCEPT !["mrg"].i = @ + 1]
            /\ UNCHANGED pc
    /\ UNCHANGED <<unvalidated, validated, db, now, heard, passes, tried, gate, kind, faults,
                   om, svc, env>>

\* lines 151-156 and 556-561: the call of save_unvalidated_word for the entry
MergeCall ==
    /\ pc["mrg"] = "merge_call"
    /\ loc["req2"].ret = "none"
    /\ LET entry == loc["mrg"].transcriber_data[loc["mrg"].i] IN
       SaveBegin("req2", Get(entry, "word", <<>>), Get(entry, "language", "en"),
                 Get(entry, "context", <<>>), Get(entry, "is_offline", TRUE))

\* lines 562-563: the call returned; merge_transcriber_json_data counts a True
MergeCallReturn ==
    /\ pc["mrg"] = "merge_call"
    /\ pc["req2"] = "idle"
    /\ loc["req2"].ret # "none"
    /\ loc' = [loc EXCEPT !["mrg"].i = @ + 1,
                          !["mrg"].merged_count =
                              IF loc["mrg"].helper = "data" /\ loc["req2"].ret = "True"
                              THEN @ + 1 ELSE @]
    /\ pc' = [pc EXCEPT !["mrg"] = "merge_loop"]
    /\ UNCHANGED <<unvalidated, validated, db, now, heard, passes, tried, gate, kind, faults,
                   om, svc, env>>

\* lines 158-163 and 566-588: after the loop the helper writes [] to the file it
\* read and returns its count
MergeEnd ==
    /\ pc["mrg"] = "merge_loop"
    /\ loc["mrg"].i > Len(loc["mrg"].transcriber_data)
    /\ LET l == loc["mrg"] IN
       /\ unvalidated' = IF ClearsAfterMerge(l.helper, l.merged_count) THEN <<>> ELSE unvalidated
       /\ loc' = [loc EXCEPT !["mrg"].ret = IF l.helper = "with_offline"
                                            THEN Len(l.transcriber_data)
                                            ELSE l.merged_count]
    /\ pc' = [pc EXCEPT !["mrg"] = "idle"]
    /\ UNCHANGED <<validated, db, now, heard, passes, tried, gate, kind, faults, om, svc, env>>

MergeStep ==
    \/ \E helper \in MergeHelpers : MergeBegin(helper)
    \/ MergeEntry
    \/ MergeCall
    \/ MergeCallReturn
    \/ MergeEnd

-----------------------------------------------------------------------------
(* app.sync_unvalidated: POST /api/sync *)

\* lines 374-376: the probe; 503 when it says offline, 500 from the outer
\* except when it raises, the call of process_unvalidated when it says online
SyncProbe ==
    /\ pc["api"] = "idle"
    /\ pc["sync"] = "idle"
    /\ om.state = "ready"
    /\ \E c \in Connections :
          LET outcome == CheckInternet(c) IN
          /\ loc' = [loc EXCEPT
                       !["sync"] = PasserIdle,
                       !["api"] =
                          CASE outcome = "online" ->
                                 [RouteIdle EXCEPT !.conn = c, !.probe = outcome]
                            [] outcome = "offline" ->
                                 [conn |-> c, probe |-> outcome, code |-> 503,
                                  status |-> "error", processed_count |-> -1]
                            [] outcome = "raised" ->
                                 [conn |-> c, probe |-> outcome, code |-> 500,
                                  status |-> "error", processed_count |-> -1]]
          /\ pc' = [pc EXCEPT !["api"] = IF outcome = "online" THEN "call" ELSE "idle"]
    /\ UNCHANGED <<unvalidated, validated, db, now, heard, passes, tried, gate, kind, faults,
                   om, svc, env>>

\* line 377: processed_count = offline_manager.process_unvalidated(translation_service)
SyncCall ==
    /\ pc["api"] = "call"
    /\ loc["sync"].ret = -1
    /\ ProcBegin("sync")

\* lines 379-383: the 200 response with status "success" and the count returned
SyncReturn ==
    /\ pc["api"] = "call"
    /\ pc["sync"] = "idle"
    /\ loc["sync"].ret >= 0
    /\ loc' = [loc EXCEPT !["api"] = [conn |-> loc["api"].conn, probe |-> "online",
                                      code |-> 200, status |-> "success",
                                      processed_count |-> loc["sync"].ret]]
    /\ pc' = [pc EXCEPT !["api"] = "idle"]
    /\ UNCHANGED <<unvalidated, validated, db, now, heard, passes, tried, gate, kind, faults,
                   om, svc, env>>

SyncStep ==
    \/ SyncProbe
    \/ SyncCall
    \/ ProcTranslate("sync")
    \/ ProcDbWrite("sync")
    \/ ProcReadValidated("sync")
    \/ ProcWriteValidated("sync")
    \/ ProcWriteRemaining("sync")
    \/ SyncReturn

-----------------------------------------------------------------------------
(* Specifications *)

SaverStep(p) ==
    \/ \E in \in SaveInputs : SaveBegin(p, in[1], in[2], in[3], TRUE)
    \/ SaveWrite(p)

PasserStep(p) ==
    \/ ProcBegin(p)
    \/ ProcTranslate(p)
    \/ ProcDbWrite(p)
    \/ ProcReadValidated(p)
    \/ ProcWriteValidated(p)
    \/ ProcWriteRemaining(p)

TranscriberStep(p) ==
    \/ \E u \in Utterances : TrRecognize(p, u[1], u[2])
    \/ TrExtractBegin(p)
    \/ TrWord(p)
    \/ TrJsonWrite(p)
    \/ TrExtractEnd(p)
    \/ TrOldSelect(p)
    \/ TrOldInsert(p)

OthersIdle(p) == \A q \in Procs \ {p} : pc[q] = "idle"

\* calls made one after another: a step is taken only while no other call is in progress
NextSeq ==
    \/ OthersIdle("req1") /\ SaverStep("req1")
    \/ OthersIdle("bg") /\ PasserStep("bg")

SpecSeq == Init /\ [][NextSeq]_vars

\* passes of the background cycle with GoogletransTranslationService as the
\* translation service
NextProvider == PasserStep("bg")

SpecProvider == InitProvider /\ [][NextProvider]_vars

\* between two calls, something other than the program leaves an element that
\* is not a record somewhere in the list of data/unvalidated.json
HandEdit ==
    /\ \A p \in Procs : pc[p] = "idle"
    /\ kind.unvalidated = "list"
    /\ \A i \in 1..Len(unvalidated) : IsDict(unvalidated[i])
    /\ \E i \in 0..Len(unvalidated) :
          unvalidated' = SubSeq(unvalidated, 1, i) \o <<NotARecord>>
                           \o SubSeq(unvalidated, i + 1, Len(unvalidated))
    /\ UNCHANGED <<validated, db, now, pc, loc, heard, passes, tried, gate, kind, faults,
                   om, svc, env>>

\* saves and passes, one after another, on a file that can get such an element
NextMalformed ==
    \/ OthersIdle("req1") /\ SaverStep("req1")
    \/ OthersIdle("bg") /\ PasserStep("bg")
    \/ HandEdit

SpecMalformed == Init /\ [][NextMalformed]_vars

\* inserts racing with each other and with the transcription thread
NextRace ==
    \/ \E p \in Savers : SaverStep(p)
    \/ TranscriberStep("tr")

SpecRace == Init /\ [][NextRace]_vars

\* the pass of the background cycle racing with the pass of POST /api/sync
NextTwin ==
    \/ PasserStep("bg")
    \/ PasserStep("sync")

SpecTwin == InitBacklog /\ [][NextTwin]_vars

\* saves, dictated utterances and merges, one after another, with the
\* hand-edited file of SpecMalformed
NextMerge ==
    \/ OthersIdle("req1") /\ SaverStep("req1")
    \/ OthersIdle("tr") /\ TranscriberStep("tr")
    \/ (pc["req1"] = "idle" /\ pc["tr"] = "idle") /\ MergeStep
    \/ HandEdit

SpecMerge == Init /\ [][NextMerge]_vars

\* an insert racing with a reconciliation pass
NextDrain ==
    \/ SaverStep("req1")
    \/ PasserStep("bg")

SpecDrain == Init /\ [][NextDrain]_vars

\* calls made one after another on storage that can fail, in a process that can
\* stop and be started again
NextFault ==
    \/ OthersIdle("req1") /\ SaverStep("req1")
    \/ OthersIdle("bg") /\ PasserStep("bg")
    \/ Crash
    \/ Construct

SpecFault == InitFaulty /\ [][NextFault]_vars

\* construction and the calls that follow it on a data directory found damaged
NextCorrupt ==
    \/ Construct
    \/ OthersIdle("req1") /\ SaverStep("req1")
    \/ OthersIdle("bg") /\ PasserStep("bg")

SpecCorrupt == InitCorrupt /\ [][NextCorrupt]_vars

\* chat requests and reconciliation passes, one after another
NextChat ==
    \/ pc["bg"] = "idle" /\ ChatStep
    \/ OthersIdle("bg") /\ PasserStep("bg")

SpecChat == Init /\ [][NextChat]_vars

\* the transcription thread alone, taking dictated utterances
NextDictate ==
    \/ \E u \in Dictations : TrRecognize("tr", u[1], u[2])
    \/ TrExtractBegin("tr")
    \/ TrWord("tr")
    \/ TrJsonWrite("tr")
    \/ TrExtractEnd("tr")
    \/ TrOldSelect("tr")
    \/ TrOldInsert("tr")

SpecDictate == Init /\ [][NextDictate]_vars

\* saves and manual reconciliation requests, served one after another
NextRoute ==
    \/ OthersIdle("req1") /\ SaverStep("req1")
    \/ pc["req1"] = "idle" /\ SyncStep

SpecRoute == Init /\ [][NextRoute]_vars

\* calls of the UnvalidatedWordManager, one after another; the batch method is
\* called again and again, and a call of process_pending that began goes on
NextBatch ==
    \/ BatchStep("uwm")
    \/ PendStep("uwm")

SpecBatch ==
    /\ InitTable
    /\ [][NextBatch]_vars
    /\ WF_vars(BatchStep("uwm"))
    /\ WF_vars(PendWord("uwm") \/ PendEnd("uwm"))

\* repeated cycles of either variant while the collaborators recover: the sync
\* loop over unvalidated.json, the batch method over the table
NextHeal ==
    \/ ModuleStart
    \/ LoopStep("bg")
    \/ BatchStep("uwm")
    \/ Recover
    \/ Connect

SpecHeal ==
    /\ InitHeal
    /\ [][NextHeal]_vars
    /\ WF_vars(LoopStep("bg"))
    /\ WF_vars(BatchStep("uwm"))

\* the service object and the threads it spawns, over a backlog of pending entries
NextSvc ==
    \/ SvcStart
    \/ SvcStop
    \/ \E l \in Loops : LoopStep(l)

SpecSvc == InitBacklog /\ [][NextSvc]_vars

\* the service as app.py runs it: started once, its thread scheduled again and
\* again (a sleep ends, a probe and a translation call return)
NextApp ==
    \/ ModuleStart
    \/ LoopStep("bg")

SpecApp == InitBacklog /\ [][NextApp]_vars /\ WF_vars(LoopStep("bg"))

-----------------------------------------------------------------------------
(* Direct calls of OfflineManager._save_to_database *)

G_hello == [en |-> T_hello, es |-> T_hola, hi |-> T_namaste]
T_terror == <<"t", "e", "r", "r", "o", "r">>
T_offline_lc == <<"h", "o", "l", "a", " ", "[", "o", "f", "f", "l", "i", "n", "e", "]">>

BadTexts ==
    {T_empty, T_blank, T_offline_hola, T_offline_lc, T_Error, T_terror, T_NONE,
     T_failed, T_failed_to, T_failed_br}

\* a translations dict without the key `lang`
Without(t, lang) == [k \in DOMAIN t \ {lang} |-> t[k]]

GateTranslations ==
    {R_valid, G_hello, <<>>}
    \cup {[G_hello EXCEPT ![lang] = bad] : lang \in required_languages, bad \in BadTexts}
    \cup {Without(G_hello, lang) : lang \in required_languages}

GateKeys == { <<W_agua, "es">>, <<W_roja, "es">> }

\* lines 245-351, as one call
SaveToDatabase(rows, word, language, translations, context, is_offline) ==
    IF ~ HasValidTranslations(translations)
    THEN [rows |-> rows, ret |-> FALSE]
    ELSE [rows |-> DbUpsert(rows, DbSelectExisting(rows, word, language), word, language,
                            translations, context, is_offline),
          ret |-> TRUE]

GateCall(word, language, translations) ==
    /\ LET r == SaveToDatabase(db, word, language, translations, C_chat, TRUE) IN
       /\ db' = r.rows
       /\ gate' = [called |-> TRUE, word |-> word, language |-> language,
                   translations |-> translations, ret |-> r.ret]
    /\ UNCHANGED <<unvalidated, validated, now, pc, loc, heard, passes, tried, kind, faults, om, svc, env>>

NextGate == \E k \in GateKeys, t \in GateTranslations : GateCall(k[1], k[2], t)

SpecGate == Init /\ [][NextGate]_vars

-----------------------------------------------------------------------------
(* Vocabulary of the properties *)

\* number of pending entries of the file for a (word, language) pair
PendingCount(file, k) ==
    Cardinality({i \in 1..Len(file) : IsPending(file[i]) /\ Key(file[i]) = k})

\* rows of the table that are validated records of the pair
ValidatedRows(rows, k) ==
    {r \in Range(rows) : r.original_word = k[1] /\ r.detected_language = k[2] /\ r.is_validated = 1}

\* entries of validated.json that are validated records of the pair
ValidatedEntries(file, k) ==
    {e \in Range(file) : Key(e) = k /\ Get(e, "status", NoneTag) = "validated"}

RowCarries(r, out) ==
    /\ r.translation_en = Get(out, "en", NoneStr)
    /\ r.translation_es = Get(out, "es", NoneStr)
    /\ r.translation_hi = Get(out, "hi", NoneStr)

SameLetter(a, b) ==
    \/ a = b
    \/ a \in DOMAIN UpperToLower /\ UpperToLower[a] = b
    \/ b \in DOMAIN UpperToLower /\ UpperToLower[b] = a

ContainsIgnoringCase(s, m) ==
    \E i \in 1..Len(s) :
        /\ i + Len(m) - 1 <= Len(s)
        /\ \A k \in 1..Len(m) : SameLetter(s[i + k - 1], m[k])

Markers ==
    { <<"[", "o", "f", "f", "l", "i", "n", "e", "]">>,
      <<"[", "t", "r", "a", "n", "s", "l", "a", "t", "i", "o", "n", " ", "f", "a", "i", "l", "e", "d", "]">>,
      <<"t", "r", "a", "n", "s", "l", "a", "t", "i", "o", "n", " ", "f", "a", "i", "l", "e", "d">>,
      <<"f", "a", "i", "l", "e", "d", " ", "t", "o", " ", "t", "r", "a", "n", "s", "l", "a", "t", "e">>,
      <<"e", "r", "r", "o", "r">>,
      <<"n", "o", "n", "e">> }

\* some of en, es, hi is missing, empty, whitespace-only or contains a marker
Rejected(t) ==
    \E lang \in {"en", "es", "hi"} :
        \/ lang \notin DOMAIN t
        \/ \A k \in 1..Len(t[lang]) : t[lang][k] \in Whitespace
        \/ \E m \in Markers : ContainsIgnoringCase(t[lang], m)

\* the translator returned and all of en, es, hi are non-empty and marker-free
Accepted(out) == out # Raise /\ ~ Rejected(out)

\* the call of process_unvalidated by p returns in this step
PassReturns(p) == pc[p] # "idle" /\ pc'[p] = "idle"

\* the call of save_unvalidated_word by p returns success in this step
SaveReturns(p) ==
    /\ pc'[p] = "idle"
    /\ loc'[p].ret = "True"
    /\ pc[p] = "save_write" \/ loc'[p] # loc[p]

SavedKey(p) == <<loc[p].word, loc[p].language>>

\* attempts of the pass of p that are the only attempt of their key in the pass
SoleAttempts(p) ==
    {i \in 1..Len(loc[p].attempts) :
        \A j \in 1..Len(loc[p].attempts) :
            Key(loc[p].attempts[j].entry) = Key(loc[p].attempts[i].entry) => j = i}

\* what the readers of the two files get after the step
PendingAfter == ReadJsonFile(kind'.unvalidated, unvalidated')
ValidatedAfter == ReadJsonFile(kind'.validated, validated')

\* the pass of p ends in this step with its rewrite of unvalidated.json done, or
\* because the process stops
PassEndsOrStops(p) ==
    /\ PassReturns(p)
    /\ \/ om'.state = "absent"
       \/ kind'.unvalidated = "list" /\ unvalidated' = loc[p].remaining

\* the number of entries a finished pass of p promoted: its attempts whose
\* translations pass the gate
Promoted(p) ==
    Cardinality({j \in 1..Len(loc[p].attempts) : Accepted(loc[p].attempts[j].out)})

\* row i of the table is pending and its word is one the translator handles
TranslatableRow(i) ==
    IF i \in DOMAIN db
    THEN /\ db[i].is_validated = 0
         /\ env.translator = "healthy"
         /\ db[i].original_word \notin env.poison
    ELSE FALSE

\* row i of the table is a validated record
RowValidated(i) == IF i \in DOMAIN db THEN db[i].is_validated = 1 ELSE FALSE

\* the thread l calls check_internet in this step
ProbeStep(l) == svc'.tick[l] # svc.tick[l]

\* the thread l takes this step
StepOf(l) == svc'.phase[l] # svc.phase[l] \/ pc'[l] # pc[l] \/ loc'[l] # loc[l]

\* the threads that are inside _sync_loop
Running == {l \in Loops : svc.phase[l] \notin {"unborn", "dead"}}

-----------------------------------------------------------------------------
(* Properties *)

\* C1: in every reachable state the pending collection holds at most one pending
\* entry for each (word, language) pair.
C1_AtMostOnePendingPerPair ==
    \A i, j \in 1..Len(unvalidated) :
        (i # j /\ IsPending(unvalidated[i]) /\ IsPending(unvalidated[j]))
            => Key(unvalidated[i]) # Key(unvalidated[j])

\* C2: a call of save_unvalidated_word made while the pair is pending returns
\* success at once and leaves the pending collection unchanged, and every call
\* that returns leaves exactly one pending entry for its pair.
C2_SecondSaveIsNoOp ==
    [][\A p \in Savers :
          /\ SaveReturns(p) =>
                PendingCount(unvalidated', <<loc'[p].word, loc'[p].language>>) = 1
          /\ \A in \in SaveInputs :
                (SaveBegin(p, in[1], in[2], in[3], TRUE)
                    /\ PendingCount(unvalidated, <<in[1], in[2]>>) >= 1)
                => /\ unvalidated' = unvalidated
                   /\ pc'[p] = "idle"
                   /\ loc'[p].ret = "True"]_vars

\* a second call with another context has returned and the first entry is intact
C2_Witness ==
    /\ pc["req1"] = "idle"
    /\ loc["req1"].ret = "True"
    /\ loc["req1"].word = W_agua /\ loc["req1"].language = "es"
    /\ loc["req1"].context = C_direct
    /\ unvalidated = <<NewEntry(W_agua, "es", C_chat, 0, TRUE)>>
    /\ now = 1

\* C3: whenever a call of save_unvalidated_word returns success, whatever the
\* other writers of the pending collection were doing meanwhile, exactly one
\* pending entry exists for its pair.
C3_ConcurrentSavesCollapse ==
    [][\A p \in Savers :
          SaveReturns(p) =>
              PendingCount(unvalidated', <<loc'[p].word, loc'[p].language>>) = 1]_vars

\* C4: once a pass is over, a pair whose save returned success while the pass
\* was in progress is still pending or has a validated record.
C4_NoLossUnderRace ==
    \A p \in Savers :
        (/\ pc[p] = "idle"
         /\ loc[p].ret = "True"
         /\ loc[p].during
         /\ ~ PassInProgress)
        => \/ PendingCount(unvalidated, SavedKey(p)) >= 1
           \/ ValidatedEntries(validated, SavedKey(p)) # {}
           \/ ValidatedRows(db, SavedKey(p)) # {}

\* C5: when a pass returns, an entry for which the translator returned
\* non-empty, marker-free en, es and hi is no longer pending, and the table and
\* validated.json hold a validated record of its pair with those translations.
C5_Promotion ==
    [][\A p \in Passers :
          PassReturns(p) =>
              \A i \in SoleAttempts(p) :
                  LET a == loc[p].attempts[i] IN
                  Accepted(a.out) =>
                      /\ PendingCount(unvalidated', Key(a.entry)) = 0
                      /\ \E r \in ValidatedRows(db', Key(a.entry)) : RowCarries(r, a.out)
                      /\ \E e \in ValidatedEntries(validated', Key(a.entry)) :
                            e.translations = a.out]_vars

\* a pass has returned after promoting ("agua", "es")
C5_Witness ==
    /\ pc["bg"] = "idle"
    /\ loc["bg"].ret = 1
    /\ Len(loc["bg"].attempts) = 1
    /\ Key(loc["bg"].attempts[1].entry) = <<W_agua, "es">>
    /\ Accepted(loc["bg"].attempts[1].out)
    /\ unvalidated = <<>>
    /\ \E r \in ValidatedRows(db, <<W_agua, "es">>) : RowCarries(r, R_valid)

\* C6: when a pass returns, an entry whose translation raised is still pending,
\* unchanged, and the pass has created or changed no validated record of its
\* pair; an entry whose previous attempt raised and whose translation now
\* returns valid values is validated and no longer pending.
C6_RetryOnFailure ==
    [][\A p \in Passers :
          PassReturns(p) =>
              \A i \in SoleAttempts(p) :
                  LET a == loc[p].attempts[i]
                      k == Key(a.entry)
                  IN /\ a.out = Raise =>
                          /\ a.entry \in Range(unvalidated')
                          /\ ValidatedRows(db', k) = ValidatedRows(loc[p].db0, k)
                          /\ ValidatedEntries(validated', k) = ValidatedEntries(loc[p].val0, k)
                     /\ (a.retry /\ Accepted(a.out)) =>
                          /\ PendingCount(unvalidated', k) = 0
                          /\ ValidatedRows(db', k) # {}
                          /\ ValidatedEntries(validated', k) # {}]_vars

\* the first pass failed on the entry and left it pending with no record
C6_WitnessPass1 ==
    /\ pc["bg"] = "idle"
    /\ passes = 1
    /\ Len(loc["bg"].attempts) = 1
    /\ loc["bg"].attempts[1].out = Raise
    /\ loc["bg"].attempts[1].entry \in Range(unvalidated)
    /\ db = <<>> /\ validated = <<>>

\* the second pass retried the entry and validated it
C6_Witness ==
    /\ pc["bg"] = "idle"
    /\ passes = 2
    /\ \E i \in 1..Len(loc["bg"].attempts) :
          LET a == loc["bg"].attempts[i] IN
          /\ a.retry
          /\ Accepted(a.out)
          /\ PendingCount(unvalidated, Key(a.entry)) = 0
          /\ ValidatedRows(db, Key(a.entry)) # {}

\* C7: when a pass returns, an entry whose translation returned values that fail
\* the gate is still pending, is not counted as processed and has not been added
\* to the validated collection.
C7_GateRejectionRequeues ==
    [][\A p \in Passers :
          PassReturns(p) =>
              \A i \in SoleAttempts(p) :
                  LET a == loc[p].attempts[i]
                      k == Key(a.entry)
                  IN (a.out # Raise /\ Rejected(a.out)) =>
                        /\ a.entry \in Range(unvalidated')
                        /\ ValidatedEntries(validated', k) = ValidatedEntries(loc[p].val0, k)
                        /\ loc'[p].ret =
                             Cardinality({j \in 1..Len(loc[p].attempts) :
                                             Accepted(loc[p].attempts[j].out)})]_vars

\* C8: a call of _save_to_database with translations in which some of en, es,
\* hi is missing, empty, whitespace-only or contains a marker creates no row and
\* updates no row.
C8_GateBlocksDatabase ==
    [][(gate' # gate /\ Rejected(gate'.translations)) => (db' = db /\ gate'.ret = FALSE)]_vars

\* {en: "hello", es: "[Offline] hola", hi: non-empty} was rejected over an existing row
C8_Witness ==
    /\ gate.called
    /\ gate.translations = [en |-> T_hello, es |-> T_offline_hola, hi |-> T_namaste]
    /\ gate.ret = FALSE
    /\ \E r \in ValidatedRows(db, <<gate.word, gate.language>>) : RowCarries(r, R_valid)

\* C9: every validated record, in the table and in validated.json, has non-empty,
\* marker-free translations for en, es and hi.
C9_ValidatedRecordsAreValid ==
    /\ \A r \in Range(db) :
          r.is_validated = 1 =>
              ~ Rejected([en |-> r.translation_en, es |-> r.translation_es,
                          hi |-> r.translation_hi])
    /\ \A e \in Range(validated) :
          Get(e, "status", NoneTag) = "validated" => ~ Rejected(Get(e, "translations", <<>>))

\* C11: when a pass returns, an entry of its snapshot whose word is empty was not
\* handed to the translator, is neither pending nor validated, and the value
\* returned counts only entries the translator returned for.
C11_EmptyWordDropped ==
    [][\A p \in Passers :
          PassReturns(p) =>
              \A i \in 1..Len(loc[p].snapshot) :
                  LET e == loc[p].snapshot[i] IN
                  Get(e, "word", <<>>) = <<>> =>
                      /\ \A j \in 1..Len(loc[p].attempts) : loc[p].attempts[j].entry # e
                      /\ e \notin Range(unvalidated')
                      /\ PendingCount(unvalidated', Key(e)) = 0
                      /\ ValidatedEntries(validated', Key(e)) = {}
                      /\ ValidatedRows(db', Key(e)) = {}
                      /\ loc'[p].ret =
                           Cardinality({j \in 1..Len(loc[p].attempts) :
                                           loc[p].attempts[j].out # Raise})]_vars

\* a pass over an empty-word entry and a failing entry has returned 0; only the
\* failing entry is still pending
C11_Witness ==
    /\ pc["bg"] = "idle"
    /\ loc["bg"].ret = 0
    /\ Len(loc["bg"].snapshot) = 2
    /\ \E i \in 1..2 : Get(loc["bg"].snapshot[i], "word", <<>>) = <<>>
    /\ Len(loc["bg"].attempts) = 1
    /\ unvalidated = <<loc["bg"].attempts[1].entry>>
    /\ validated = <<>> /\ db = <<>>

\* C10: when a pass in which every translation raised or returned valid values
\* returns, every entry of the snapshot was attempted, in order; every entry whose
\* translation returned is promoted, every entry whose translation raised is
\* still pending, and the pass returns the number of promoted entries.
C10_PartialFailureIsolation ==
    [][\A p \in Passers :
          (/\ PassReturns(p)
           /\ \A i \in 1..Len(loc[p].attempts) :
                 loc[p].attempts[i].out = Raise \/ Accepted(loc[p].attempts[i].out))
          => LET A == loc[p].attempts
                 todo == SelectSeq(loc[p].snapshot, LAMBDA e : Get(e, "word", <<>>) # <<>>)
             IN /\ Len(A) = Len(todo)
                /\ \A i \in 1..Len(A) : A[i].entry = todo[i]
                /\ \A i \in SoleAttempts(p) :
                      /\ A[i].out = Raise => A[i].entry \in Range(unvalidated')
                      /\ A[i].out # Raise =>
                            /\ PendingCount(unvalidated', Key(A[i].entry)) = 0
                            /\ \E r \in ValidatedRows(db', Key(A[i].entry)) : RowCarries(r, A[i].out)
                /\ loc'[p].ret = Cardinality({i \in 1..Len(A) : A[i].out # Raise})]_vars

\* a pass has returned 1 after a failure on its first entry and a success on its second
C10_Witness ==
    /\ pc["bg"] = "idle"
    /\ loc["bg"].ret = 1
    /\ Len(loc["bg"].attempts) = 2
    /\ loc["bg"].attempts[1].out = Raise
    /\ Accepted(loc["bg"].attempts[2].out)
    /\ unvalidated = <<loc["bg"].attempts[1].entry>>
    /\ ValidatedRows(db, Key(loc["bg"].attempts[2].entry)) # {}

\* C12: when a pass ends, by returning or because the process stops, whatever
\* writes of the table or of validated.json failed on the way, every entry of its
\* snapshot with a non-empty word is still pending or has a validated record.
C12_RemovedOnlyOnceValidated ==
    [][\A p \in Passers :
          PassEndsOrStops(p) =>
              \A i \in 1..Len(loc[p].snapshot) :
                  LET e == loc[p].snapshot[i]
                      k == Key(e)
                  IN Get(e, "word", <<>>) # <<>> =>
                        \/ PendingCount(PendingAfter, k) >= 1
                        \/ ValidatedEntries(ValidatedAfter, k) # {}
                        \/ ValidatedRows(db', k) # {}]_vars

\* C13: when save_unvalidated_word returns success, a pending entry for its pair
\* is in the file as its readers see it.
C13_SuccessMeansStored ==
    [][\A p \in Savers :
          SaveReturns(p) =>
              PendingCount(PendingAfter, <<loc'[p].word, loc'[p].language>>) >= 1]_vars

\* C14: whatever the constructor finds in the two files, it does not raise; a
\* file that does not parse or is not a list reads as empty; and a call of
\* save_unvalidated_word that returns success leaves its entry among the pending
\* entries get_unvalidated_words returns.
C14_CorruptionReadsAsEmpty ==
    [][/\ om'.state # "failed"
       /\ kind.unvalidated # "list" => GetUnvalidatedWords(kind.unvalidated, unvalidated) = <<>>
       /\ kind.validated # "list" => ReadJsonFile(kind.validated, validated) = <<>>
       /\ \A p \in Savers :
             SaveReturns(p) =>
                 \E e \in Range(GetUnvalidatedWords(kind'.unvalidated, unvalidated')) :
                     Key(e) = <<loc'[p].word, loc'[p].language>>
       /\ \A p \in Passers : PassReturns(p) => loc'[p].ret >= 0]_vars

\* the constructor found an unvalidated.json that is not a list; a later save
\* has returned and its entry is the one pending entry
C14_Witness ==
    /\ om.state = "ready"
    /\ om.found.unvalidated \in {"object", "garbage"}
    /\ pc["req1"] = "idle"
    /\ loc["req1"].ret = "True"
    /\ loc["req1"].word = W_agua /\ loc["req1"].language = "es"
    /\ GetUnvalidatedWords(kind.unvalidated, unvalidated) = <<NewEntry(W_agua, "es", C_chat, 0, TRUE)>>

\* C15: when a pass returns, the table holds exactly one row and validated.json
\* exactly one validated entry for the pair of every entry it promoted, both
\* carrying the translations of that promotion.
C15_OneRecordPerKey ==
    [][\A p \in Passers :
          PassReturns(p) =>
              \A i \in SoleAttempts(p) :
                  LET a == loc[p].attempts[i]
                      k == Key(a.entry)
                      rows == {n \in 1..Len(db') :
                                  /\ db'[n].original_word = k[1]
                                  /\ db'[n].detected_language = k[2]}
                      recs == {n \in 1..Len(validated') :
                                  /\ Key(validated'[n]) = k
                                  /\ Get(validated'[n], "status", NoneTag) = "validated"}
                  IN Accepted(a.out) =>
                        /\ Cardinality(rows) = 1
                        /\ \A n \in rows : db'[n].is_validated = 1 /\ RowCarries(db'[n], a.out)
                        /\ Cardinality(recs) = 1
                        /\ \A n \in recs : validated'[n].translations = a.out]_vars

\* C16: a call of stop() leaves the service Stopped.
C16_StopStops ==
    [][(svc'.stops /\ ~ svc.stops) => svc'.running = FALSE]_vars

\* C17: at most one thread is inside _sync_loop at any time.
C17_OneLoopThread == Cardinality(Running) <= 1

\* C18: a thread calls the probe only after it has slept a full interval since
\* it was started or since its previous probe.
C18_SleepsBeforeProbe ==
    [][\A l \in Loops : ProbeStep(l) => svc.rested[l]]_vars

\* C18 as amended: a thread calls the probe right after it is started, and
\* after that only when it has slept a full interval since its previous probe.
C18_SleepsBetweenProbes ==
    [][\A l \in Loops :
          ProbeStep(l) => (svc.last[l] = "none" /\ ~ svc.rested[l]) \/ svc.rested[l]]_vars

\* a thread has probed for the second time and is asleep again
C18_Witness ==
    /\ svc.phase["bg"] = "sleep"
    /\ svc.prev["bg"] # "none"
    /\ svc.last["bg"] # "none"
    /\ ~ svc.rested["bg"]

\* C19: the step in which a thread's probe returns offline, and every step the
\* thread takes before its next probe, leave unvalidated.json, validated.json
\* and the table as they are, call no translator and start no pass.
C19_OfflineCycleChangesNothing ==
    [][\A l \in Loops :
          ((ProbeStep(l) /\ svc'.last[l] = "offline")
             \/ (StepOf(l) /\ ~ ProbeStep(l) /\ svc.last[l] = "offline"))
          => /\ unvalidated' = unvalidated /\ validated' = validated /\ db' = db
             /\ kind' = kind
             /\ tried' = tried /\ passes' = passes
             /\ pc'[l] = "idle"
             /\ svc'.phase[l] \in {"sleep", "top", "try"}]_vars

\* a thread found the network down while an entry was pending, and sleeps
C19_Witness ==
    /\ svc.last["bg"] = "offline"
    /\ svc.phase["bg"] = "sleep"
    /\ unvalidated = Backlog
    /\ validated = <<>> /\ db = <<>>

\* C20: after a cycle of a thread has raised, the thread probes again.
C20_LoopSurvivesExceptions ==
    \A l \in Loops : \A b \in BOOLEAN :
        (svc.last[l] = "raised" /\ svc.tick[l] = b) ~> (svc.tick[l] # b)

\* a thread has run another cycle after one that raised
C20_Witness ==
    /\ svc.prev["bg"] = "raised"
    /\ svc.last["bg"] = "online"
    /\ svc.phase["bg"] = "sleep"

\* C21: a /api/sync request answered while the probe says offline gets an error,
\* calls no translator and changes neither file nor the table; one answered
\* while online gets status success with processed_count equal to the number of
\* entries the pass promoted.
C21_SyncTrigger ==
    [][/\ (loc'["api"] # loc["api"] /\ loc'["api"].probe = "offline") =>
             /\ loc'["api"].status = "error"
             /\ loc'["api"].code # 200
             /\ pc'["sync"] = "idle"
             /\ tried' = tried /\ passes' = passes
             /\ unvalidated' = unvalidated /\ validated' = validated /\ db' = db
       /\ (pc["api"] = "call" /\ pc'["api"] = "idle") =>
             /\ loc'["api"].status = "success"
             /\ loc'["api"].processed_count = Promoted("sync")]_vars

\* C22: once the network is up for good and the translator succeeds for good,
\* with no entry inserted, the cycles of the running sync loop empty the pending
\* entries of unvalidated.json (while the bound on passes leaves a pass to
\* start), and repeated calls of process_unvalidate_batch leave no pending row
\* in the table, for every batch size and every backlog.
C22_BacklogDrains ==
    /\ (env.net = "up" /\ env.translator = "healthy" /\ svc.running /\ passes < MaxPasses)
          ~> (GetUnvalidatedWords(kind.unvalidated, unvalidated) = <<>>)
    /\ (env.translator = "healthy" /\ om.state = "absent")
          ~> (\A i \in DOMAIN db : db[i].is_validated # 0)

\* a backlog of two entries was emptied by the pass that followed a failed one
C22_Witness ==
    /\ env.net = "up" /\ env.translator = "healthy"
    /\ passes >= 2
    /\ unvalidated = <<>>
    /\ Len(validated) = 2
    /\ Len(db) = 2

\* C23: when process_pending returns, every row whose translate_to_all call
\* raised during the call is still pending (is_validated = 0).
C23_FailedRowStaysPending ==
    [][\A p \in Managers :
          (pc[p] = "pending" /\ pc'[p] = "idle") =>
              \A id \in loc[p].failed : db'[id].is_validated = 0]_vars

\* C24: with process_unvalidate_batch called again and again, a pending row
\* whose word the translator handles is eventually validated, whatever older
\* rows the translator keeps failing on.
C24_NoHeadOfLineBlocking ==
    \A i \in 1..MaxRows : TranslatableRow(i) ~> RowValidated(i)

\* C25: when a pass returns, an entry with valid translations for which
\* get_comprehensive_meaning raised has a validated row with its three
\* translations in the table and was not kept for the pending collection.
C25_MeaningFailureDoesNotBlock ==
    [][\A p \in Passers :
          (PassReturns(p) /\ loc'[p].ret >= 0) =>
              \A i \in SoleAttempts(p) :
                  LET a == loc[p].attempts[i] IN
                  a.save = "meaning_raised" =>
                      /\ \E r \in ValidatedRows(db', Key(a.entry)) : RowCarries(r, a.out)
                      /\ a.entry \notin Range(loc[p].remaining)]_vars

\* C26: whenever the connection attempt of a probe ended in success, refusal,
\* an unreachable network or a timeout, check_internet returned a boolean, and
\* True only for success.
C26_ProbeNeverRaises ==
    loc["api"].conn \in {"connected", "refused", "unreachable", "timeout"} =>
        /\ loc["api"].probe \in {"online", "offline"}
        /\ loc["api"].probe = "online" <=> loc["api"].conn = "connected"

\* a probe whose connection attempt timed out said offline, and the request got 503
C26_Witness ==
    /\ loc["api"].conn = "timeout"
    /\ loc["api"].probe = "offline"
    /\ loc["api"].code = 503

\* C29: a call of save_unvalidated_word returns True exactly when it inserted a
\* new pending entry; a call that finds a pending entry of the pair returns False.
C29_TrueOnlyWhenInserted ==
    [][\A p \in Savers :
          (pc'[p] = "idle" /\ loc'[p] # loc[p]) =>
              (loc'[p].ret = "True" <=> pc[p] = "save_write")]_vars

\* C30: when a pass returns in which translate_to_all raised for every entry of
\* the snapshot, all with a word, unvalidated.json holds the entries of the
\* snapshot, unchanged and in the same order, validated.json and the table are
\* what they were when the pass began, and the pass returns 0.
C30_AllFailedPassChangesNothing ==
    [][\A p \in Passers :
          (/\ PassReturns(p)
           /\ Len(loc[p].attempts) = Len(loc[p].snapshot)
           /\ \A i \in 1..Len(loc[p].attempts) : loc[p].attempts[i].out = Raise)
          => /\ unvalidated' = loc[p].snapshot
             /\ kind'.unvalidated = "list"
             /\ validated' = loc[p].val0
             /\ db' = loc[p].db0
             /\ loc'[p].ret = 0]_vars

\* a pass over two pending entries failed on both and left both, in their order
C30_Witness ==
    /\ pc["bg"] = "idle"
    /\ loc["bg"].ret = 0
    /\ Len(loc["bg"].snapshot) = 2
    /\ Len(loc["bg"].attempts) = 2
    /\ \A i \in 1..2 : loc["bg"].attempts[i].out = Raise
    /\ unvalidated = loc["bg"].snapshot
    /\ validated = <<>>

\* the words a text should yield: its whitespace tokens, stripped of punctuation
\* and lower-cased, that a test keeps
Candidates(text, Keeps(_)) ==
    {w \in {Lower(StripPunctuation(t)) : t \in Range(Split(text))} : Keeps(w)}

\* the positions of the pending entries that came from one input text
EntriesOf(text) ==
    IF kind.unvalidated = "list"
    THEN {k \in DOMAIN unvalidated : unvalidated[k].context = text}
    ELSE {}

\* C27: when one offline call of extract_and_save_words has gone through its
\* text, the pending entries of that text hold exactly the lower-cased,
\* punctuation-stripped tokens longer than 2 characters, purely alphabetic and
\* in no stop-word set, each of them once, a repeated token included.
C27_ExtractionYieldsCandidateSet ==
    \A p \in Transcribers :
        (/\ pc[p] = "words"
         /\ loc[p].call = 1
         /\ loc[p].i > Len(loc[p].words)
         /\ ~ loc[p].online_status) =>
            /\ {unvalidated[k].word : k \in EntriesOf(loc[p].text)}
                  = Candidates(loc[p].text, IsMeaningful)
            /\ Cardinality(EntriesOf(loc[p].text))
                  = Cardinality(Candidates(loc[p].text, IsMeaningful))


\* the candidate words of the message of the chat request
ChatCandidates ==
    Candidates(loc["chat"].message, LAMBDA w : IsUnknownWord(w, loc["chat"].lang))

\* the chat request found no pending entry, every probe it made said offline,
\* and its message holds two distinct candidate words
DarkRequestOfTwo ==
    /\ loc["chat"].dark
    /\ loc["chat"].before = <<>>
    /\ loc["chat"].message # <<>>
    /\ Cardinality(ChatCandidates) = 2

\* a call of save_unknown_words_offline has gone through the message, or
\* chat_text is about to respond
ChatSaved ==
    \/ pc["chat"] = "chat_words" /\ loc["chat"].i > Len(loc["chat"].words)
    \/ pc["chat"] = "chat_respond"

\* the pending collection holds one entry for each candidate of the chat
\* message and nothing else
PendingAreChatCandidates(k, file) ==
    LET pending == GetUnvalidatedWords(k, file) IN
    /\ Len(pending) = Cardinality(ChatCandidates)
    /\ {Key(pending[i]) : i \in 1..Len(pending)}
          = {<<w, loc["chat"].lang>> : w \in ChatCandidates}

NonEmpty(t) == t # NoneStr /\ t # <<>>

\* C28: in a chat request that found no pending entry, whose probes all said
\* offline and whose message holds two distinct candidate words, each call of
\* save_unknown_words_offline and the request as a whole leave exactly two
\* pending entries, one for each candidate; and when a reconciliation pass
\* over these two entries returns after the translator gave valid translations
\* for both, the pending collection is empty and each of the two pairs has a
\* validated row and a validated entry with non-empty en, es and hi.
C28_OfflineRoundTrip ==
    [][/\ (DarkRequestOfTwo /\ ChatSaved) =>
              PendingAreChatCandidates(kind.unvalidated, unvalidated)
       /\ (/\ PassReturns("bg")
           /\ DarkRequestOfTwo
           /\ loc["chat"].code = 200
           /\ PendingAreChatCandidates(kind.unvalidated, unvalidated)
           /\ loc["bg"].snapshot = GetUnvalidatedWords(kind.unvalidated, unvalidated)
           /\ Len(loc["bg"].attempts) = 2
           /\ \A i \in 1..Len(loc["bg"].attempts) : Accepted(loc["bg"].attempts[i].out)) =>
              /\ GetUnvalidatedWords(kind'.unvalidated, unvalidated') = <<>>
              /\ \A w \in ChatCandidates :
                    /\ \E r \in ValidatedRows(db', <<w, loc["chat"].lang>>) :
                          /\ NonEmpty(r.translation_en)
                          /\ NonEmpty(r.translation_es)
                          /\ NonEmpty(r.translation_hi)
                    /\ \E e \in ValidatedEntries(validated', <<w, loc["chat"].lang>>) :
                          /\ NonEmpty(Get(e.translations, "en", NoneStr))
                          /\ NonEmpty(Get(e.translations, "es", NoneStr))
                          /\ NonEmpty(Get(e.translations, "hi", NoneStr))]_vars

\* the offline request for "agua roja" called save_unknown_words_offline twice
\* and was answered, then a pass promoted both of its words
C28_Witness ==
    /\ pc["chat"] = "idle"
    /\ loc["chat"].code = 200
    /\ loc["chat"].message = X_agua_roja
    /\ loc["chat"].dark
    /\ loc["chat"].before = <<>>
    /\ loc["chat"].ran = 2
    /\ Len(loc["chat"].saves) = 4
    /\ pc["bg"] = "idle"
    /\ loc["bg"].ret = 2
    /\ Len(loc["bg"].attempts) = 2
    /\ \A i \in 1..2 : Accepted(loc["bg"].attempts[i].out)
    /\ unvalidated = <<>>
    /\ ValidatedRows(db, <<W_agua, "es">>) # {}
    /\ ValidatedRows(db, <<W_roja, "es">>) # {}

\* s can be had from t by leaving elements out
RECURSIVE IsSubsequence(_, _)
IsSubsequence(s, t) ==
    IF s = <<>> THEN TRUE
    ELSE IF t = <<>> THEN FALSE
    ELSE IF Head(s) = Head(t) THEN IsSubsequence(Tail(s), Tail(t))
    ELSE IsSubsequence(s, Tail(t))

\* C31: in a run of saves and passes that follow one another, every step
\* leaves in get_unvalidated_words the entries it returned before, those that
\* are still pending, in the order they had, followed by the entry the step
\* inserted, if it inserted one.
C31_PendingOrderIsStable ==
    [][LET before == GetUnvalidatedWords(kind.unvalidated, unvalidated)
           after == GetUnvalidatedWords(kind'.unvalidated, unvalidated')
       IN \/ IsSubsequence(after, before)
          \/ /\ after # <<>>
             /\ \E p \in Savers : pc[p] = "save_write"
             /\ IsSubsequence(SubSeq(after, 1, Len(after) - 1), before)
             /\ \A i \in 1..Len(before) : after[Len(after)] # before[i]]_vars

\* a pass has requeued two entries, which are pending in the order of their
\* insertion
C31_Witness ==
    /\ pc["bg"] = "idle"
    /\ loc["bg"].ret >= 0
    /\ Len(loc["bg"].snapshot) = 2
    /\ LET pending == GetUnvalidatedWords(kind.unvalidated, unvalidated) IN
       /\ Len(pending) = 2
       /\ pending = loc["bg"].snapshot
       /\ pending[1].timestamp < pending[2].timestamp

\* the records of the file that are pending
PendingRecords(file) == {e \in Range(file) : IsDict(e) /\ IsPending(e)}

\* C32: with an element that is not a record in the pending collection, a pass
\* that begins takes every pending record of the file into its snapshot, and
\* no call of save_unvalidated_word returns False.
C32_MalformedElementDoesNotStop ==
    [][/\ \A p \in Passers :
            (passes' = passes + 1 /\ loc'[p] # loc[p]) =>
                PendingRecords(ReadJsonFile(kind.unvalidated, unvalidated))
                    \subseteq Range(loc'[p].snapshot)
       /\ \A p \in Savers : loc'[p] # loc[p] => loc'[p].ret # "False"]_vars

\* C33: whatever two passes do at the same time, the translations table holds
\* at most one validated row and validated.json at most one validated entry
\* for each (word, language) of the backlog.
C33_ConcurrentPromotionsLeaveOneRecord ==
    \A e \in Range(Backlog) :
        /\ Cardinality({n \in 1..Len(db) :
                           /\ db[n].original_word = Key(e)[1]
                           /\ db[n].detected_language = Key(e)[2]
                           /\ db[n].is_validated = 1}) <= 1
        /\ Cardinality({n \in 1..Len(validated) :
                           /\ Key(validated[n]) = Key(e)
                           /\ Get(validated[n], "status", NoneTag) = "validated"}) <= 1

\* chat_text is about to answer with online = false
AnswersOffline ==
    /\ pc["chat"] = "chat_respond"
    /\ ~ (loc["chat"].is_online /\ loc["chat"].call = "none")

\* C34: when chat_text answers with online = false, every candidate word of the
\* message has a pending entry for the detected language.
C34_OfflineAnswerSavesCandidates ==
    AnswersOffline =>
        \A w \in ChatCandidates :
            PendingCount(ReadJsonFile(kind.unvalidated, unvalidated),
                         <<w, loc["chat"].lang>>) >= 1

\* the entries of the snapshot of p that process_unvalidated skips as empty
DroppedAsEmpty(p) ==
    Cardinality({j \in 1..Len(loc[p].snapshot) : Get(loc[p].snapshot[j], "word", <<>>) = <<>>})

\* C35: when a pass with no concurrent writer returns, the entries it promoted,
\* the entries it requeued and the entries it dropped as empty add up to its
\* snapshot, the pending collection is exactly the requeued entries, and the
\* returned count is the number of promoted entries.
C35_PassAccounting ==
    [][\A p \in Passers :
          PassReturns(p) =>
              /\ Promoted(p) + Len(loc[p].remaining) + DroppedAsEmpty(p) = Len(loc[p].snapshot)
              /\ GetUnvalidatedWords(kind'.unvalidated, unvalidated') = loc[p].remaining
              /\ loc'[p].ret = Promoted(p)]_vars

\* C36: with a provider that fails on every call, a pass that returns leaves
\* every entry of its snapshot pending and has written no validated row and no
\* validated entry for it.
C36_ProviderFailureKeepsPending ==
    [][\A p \in Passers :
          (PassReturns(p) /\ env.translator = "googletrans_down") =>
              \A j \in 1..Len(loc[p].snapshot) :
                  LET k == Key(loc[p].snapshot[j]) IN
                  /\ PendingCount(PendingAfter, k) = 1
                  /\ ValidatedRows(db', k) = {}
                  /\ ValidatedEntries(validated', k) = {}]_vars

\* C37: when the calls of save_unvalidated_word two request threads made for
\* different (word, language) pairs have both returned success, both pairs have
\* a pending entry.
C37_ConcurrentSavesBothPersist ==
    \A p, q \in Savers :
        (/\ p # q
         /\ pc[p] = "idle" /\ pc[q] = "idle"
         /\ loc[p].ret = "True" /\ loc[q].ret = "True"
         /\ SavedKey(p) # SavedKey(q)) =>
            /\ PendingCount(ReadJsonFile(kind.unvalidated, unvalidated), SavedKey(p)) >= 1
            /\ PendingCount(ReadJsonFile(kind.unvalidated, unvalidated), SavedKey(q)) >= 1

\* C38: when a merge helper returns, every (word, language) pair that was
\* pending in data/unvalidated.json when it was called is still pending there.
C38_MergeLosesNoPendingWord ==
    [][(pc["mrg"] # "idle" /\ pc'["mrg"] = "idle") =>
          \A k \in loc["mrg"].before :
              PendingCount(ReadJsonFile(kind'.unvalidated, unvalidated'), k) >= 1]_vars

====
